---- MODULE Spec2Model ----
(***************************************************************************)
(* A model of flowstate's pose pipeline (src/src/core/analyzer.py):        *)
(* OpenPoseDetector.interpolate_poses / smooth_poses, the stick-figure     *)
(* builder, the score formulas and PoseAnalyzer.analyze_video; of the      *)
(* local-video path of YouTubeDownloader (src/src/core/downloader.py) and  *)
(* of the main command (src/src/cli/app.py).                               *)
(*                                                                         *)
(* Numbers.  Python floats are held in fixed point: the float v is the     *)
(* integer v * Unit.  Coordinates are pixels, confidences lie in 0..Unit,  *)
(* scores in 0..100*Unit.  Timestamps are held in frame periods            *)
(* (1/frame_rate seconds), again in fixed point.  Lists are 1-based TLA+   *)
(* sequences; At(list, k) reads the code's 0-based index k.                *)
(***************************************************************************)
EXTENDS Integers, Sequences, FiniteSets, TLC

VARIABLES settings, detector, image_files, pc, idx, pose_frames,
          detected_frames_count, interpolated_poses, smoothed_poses,
          stick_figure_data, overall_scores, result,
          locals, console, disk, downloader

\* What analyze_video and the stages work on.
pipeline_vars == <<detector, image_files, idx, pose_frames,
                   detected_frames_count, interpolated_poses, smoothed_poses,
                   stick_figure_data, overall_scores>>

\* What the command line and the downloader work on: the local variables
\* of main, the messages printed, the file system, the YouTubeDownloader.
cli_vars == <<locals, console, disk, downloader>>

vars == <<settings, pc, result, pipeline_vars, cli_vars>>

(***************************************************************************)
(* Bounds of the model.                                                    *)
(***************************************************************************)
MaxFrames == 3      \* longest Sequence handed to a stage directly
MaxFactor == 3      \* largest upscale factor handed to interpolate_poses
MaxWindow == 3      \* largest window handed to smooth_poses
MaxImages == 2      \* most image files in the frames directory

(***************************************************************************)
(* Fixed-point arithmetic.                                                 *)
(***************************************************************************)
Unit == 60

\* The float n/d.
Fix(n, d) == (n * Unit) \div d

\* The product of two floats.
Mul(a, b) == (a * b) \div Unit

Min(a, b) == IF a <= b THEN a ELSE b
Max(a, b) == IF a >= b THEN a ELSE b
Abs(a) == IF a < 0 THEN -a ELSE a

RECURSIVE SqrtSearch(_, _, _)
SqrtSearch(n, lo, hi) ==
    IF lo >= hi THEN lo
    ELSE LET mid == (lo + hi + 1) \div 2
         IN  IF mid * mid <= n THEN SqrtSearch(n, mid, hi)
                               ELSE SqrtSearch(n, lo, mid - 1)

\* np.sqrt(dx**2 + dy**2) of two fixed-point numbers, in fixed point.
Magnitude(dx, dy) == SqrtSearch(dx * dx + dy * dy, 0, 46340)

RECURSIVE SumRange(_, _, _)
SumRange(s, lo, hi) ==
    IF lo > hi THEN 0
    ELSE IF lo = hi THEN s[lo]
    ELSE LET mid == (lo + hi) \div 2
         IN  SumRange(s, lo, mid) + SumRange(s, mid + 1, hi)

\* sum(s)
SumSeq(s) == SumRange(s, 1, Len(s))

\* np.mean of a non-empty list.
np_mean(s) == SumSeq(s) \div Len(s)

\* np.std of a non-empty list (population standard deviation).
np_std(s) ==
    LET m == np_mean(s)
        sq == [k \in 1..Len(s) |-> ((s[k] - m) * (s[k] - m)) \div Unit]
    IN  SqrtSearch(np_mean(sq) * Unit, 0, 46340)

(***************************************************************************)
(* Python lists.                                                           *)
(***************************************************************************)
At(list, k) == list[k + 1]

\* list[start:end] for 0 <= start, 0 <= end.
PySlice(list, start, end) ==
    LET e == Min(end, Len(list))
    IN  IF start >= e THEN <<>> ELSE SubSeq(list, start + 1, e)

RECURSIVE FlattenRange(_, _, _)
FlattenRange(ss, lo, hi) ==
    IF lo > hi THEN <<>>
    ELSE IF lo = hi THEN ss[lo]
    ELSE LET mid == (lo + hi) \div 2
         IN  FlattenRange(ss, lo, mid) \o FlattenRange(ss, mid + 1, hi)

\* The lists of ss appended one after the other.
Flatten(ss) == FlattenRange(ss, 1, Len(ss))

(***************************************************************************)
(* PoseKeypoint, PoseFrame and the topology tables.                        *)
(***************************************************************************)
\* PoseKeypoint(x, y, confidence): z keeps its default 0.0.
PoseKeypoint(x, y, confidence) ==
    [x |-> x, y |-> y, confidence |-> confidence, z |-> 0]

\* A keypoint built with the optional z given: PoseKeypoint(x, y, c, z).
WithDepth(keypoint, z) == [keypoint EXCEPT !.z = z]

PoseFrame(body, left, right, face, timestamp, frame_idx) ==
    [body_keypoints |-> body, hand_keypoints_left |-> left,
     hand_keypoints_right |-> right, face_keypoints |-> face,
     timestamp |-> timestamp, frame_idx |-> frame_idx]

BODY_KEYPOINTS ==
    <<"nose", "left_eye", "right_eye", "left_ear", "right_ear",
      "left_shoulder", "right_shoulder", "left_elbow", "right_elbow",
      "left_wrist", "right_wrist", "left_hip", "right_hip",
      "left_knee", "right_knee", "left_ankle", "right_ankle">>

HAND_KEYPOINTS ==
    <<"wrist", "thumb_cmc", "thumb_mcp", "thumb_ip", "thumb_tip",
      "index_mcp", "index_pip", "index_dip", "index_tip",
      "middle_mcp", "middle_pip", "middle_dip", "middle_tip",
      "ring_mcp", "ring_pip", "ring_dip", "ring_tip",
      "pinky_mcp", "pinky_pip", "pinky_dip", "pinky_tip">>

BODY_CONNECTIONS ==
    << <<0, 1>>, <<0, 2>>, <<1, 3>>, <<2, 4>>,
       <<5, 6>>, <<5, 7>>, <<6, 8>>, <<7, 9>>, <<8, 10>>,
       <<5, 11>>, <<6, 12>>, <<11, 12>>,
       <<11, 13>>, <<12, 14>>, <<13, 15>>, <<14, 16>> >>

HAND_CONNECTIONS ==
    << <<0, 1>>, <<1, 2>>, <<2, 3>>, <<3, 4>>,
       <<0, 5>>, <<5, 6>>, <<6, 7>>, <<7, 8>>,
       <<0, 9>>, <<9, 10>>, <<10, 11>>, <<11, 12>>,
       <<0, 13>>, <<13, 14>>, <<14, 15>>, <<15, 16>>,
       <<0, 17>>, <<17, 18>>, <<18, 19>>, <<19, 20>> >>

\* The visibility threshold 0.3 the builder and the scores compare against.
Threshold == Fix(3, 10)

(***************************************************************************)
(* OpenPoseDetector.interpolate_poses                                      *)
(***************************************************************************)
\* Faulty variant: the inserted keypoint takes the first frame's confidence.
InterpConfidence_first(c1, c2) == c1

\* confidence=min(kp1.confidence, kp2.confidence)
InterpConfidence(c1, c2) == Min(c1, c2)

\* Faulty variant: the two ends are exchanged, p2 + alpha * (p1 - p2).
Lerp_swapped(p1, p2, alpha) == p2 + Mul(alpha, p1 - p2)

\* p1 + alpha * (p2 - p1)
Lerp(p1, p2, alpha) == p1 + Mul(alpha, p2 - p1)

InterpKeypoint(kp1, kp2, alpha) ==
    PoseKeypoint(Lerp(kp1.x, kp2.x, alpha), Lerp(kp1.y, kp2.y, alpha),
                 InterpConfidence(kp1.confidence, kp2.confidence))

\* Faulty variant: range(len(list1)), the first frame's keypoint standing
\* in where the second list is shorter.
InterpList_first(list1, list2, alpha) ==
    [k \in 1..Len(list1) |->
        IF k <= Len(list2) THEN InterpKeypoint(list1[k], list2[k], alpha)
        ELSE list1[k]]

\* for i in range(min(len(list1), len(list2))): ... append(interpolated_kp)
InterpList(list1, list2, alpha) ==
    [k \in 1..Min(Len(list1), Len(list2)) |->
        InterpKeypoint(list1[k], list2[k], alpha)]

\* Faulty variant: round(...) in place of int(...).
PyInt_round(v) == (v + Unit \div 2) \div Unit

\* int(...) of a non-negative fixed-point number.
PyInt(v) == v \div Unit

_interpolate_single_pose(pose1, pose2, alpha) ==
    PoseFrame(InterpList(pose1.body_keypoints, pose2.body_keypoints, alpha),
              InterpList(pose1.hand_keypoints_left,
                         pose2.hand_keypoints_left, alpha),
              InterpList(pose1.hand_keypoints_right,
                         pose2.hand_keypoints_right, alpha),
              InterpList(pose1.face_keypoints, pose2.face_keypoints, alpha),
              Lerp(pose1.timestamp, pose2.timestamp, alpha),
              PyInt(pose1.frame_idx * Unit
                    + alpha * (pose2.frame_idx - pose1.frame_idx)))

\* Faulty variant: range(1, self.interpolation_factor + 1).
InterpSteps_inclusive(factor) == 1..factor

\* range(1, self.interpolation_factor)
InterpSteps(factor) == 1..(factor - 1)

\* One pass of the outer loop: the original pose, then the inserted ones.
InterpSegment(current_pose, next_pose, factor) ==
    <<current_pose>> \o
    [j \in InterpSteps(factor) |->
        _interpolate_single_pose(current_pose, next_pose, Fix(j, factor))]

\* Faulty variant: the final pose is not added.
InterpFinal_missing(poses) == <<>>

\* # Add final pose
InterpFinal(poses) == <<poses[Len(poses)]>>

\* Faulty variant: fewer than two poses give an empty list.
interpolate_poses_empty(poses, factor) ==
    IF Len(poses) < 2 THEN <<>>
    ELSE Flatten([i \in 1..(Len(poses) - 1) |->
                     InterpSegment(poses[i], poses[i + 1], factor)])
         \o InterpFinal(poses)

interpolate_poses(poses, factor) ==
    IF Len(poses) < 2 THEN poses
    ELSE Flatten([i \in 1..(Len(poses) - 1) |->
                     InterpSegment(poses[i], poses[i + 1], factor)])
         \o InterpFinal(poses)

(***************************************************************************)
(* OpenPoseDetector.smooth_poses                                           *)
(***************************************************************************)
\* Faulty variant: the last pose of the window is returned.
_gaussian_smooth_pose_last(window_poses, center_idx) ==
    window_poses[Len(window_poses)]

_gaussian_smooth_pose(window_poses, center_idx) ==
    IF center_idx >= Len(window_poses)
    THEN window_poses[Len(window_poses)]
    ELSE At(window_poses, center_idx)

\* Faulty variant: range(1, len(poses)).
SmoothIndices_late(poses, window) == [k \in 1..(Len(poses) - 1) |-> k]

\* for i in range(len(poses))
SmoothIndices(poses, window) == [k \in 1..Len(poses) |-> k - 1]

SmoothAt(poses, window, i) ==
    LET start_idx == Max(0, i - window \div 2)
        end_idx == Min(Len(poses), i + window \div 2 + 1)
        window_poses == PySlice(poses, start_idx, end_idx)
    IN  _gaussian_smooth_pose(window_poses, i - start_idx)

smooth_poses(poses, window) ==
    IF Len(poses) < window THEN poses
    ELSE LET indices == SmoothIndices(poses, window)
         IN  [k \in 1..Len(indices) |-> SmoothAt(poses, window, indices[k])]

(***************************************************************************)
(* PoseAnalyzer._generate_stick_figure_data                                *)
(***************************************************************************)
\* Faulty variant: the last index of the list is taken to be out of bounds.
InBounds_short(keypoints, connection) ==
    connection[1] < Len(keypoints) - 1 /\ connection[2] < Len(keypoints) - 1

\* Faulty variant: only connection[0] is tested against the length.
InBounds_first(keypoints, connection) == connection[1] < Len(keypoints)

\* connection[0] < len(keypoints) and connection[1] < len(keypoints)
InBounds(keypoints, connection) ==
    connection[1] < Len(keypoints) /\ connection[2] < Len(keypoints)

\* Faulty variant: only the first endpoint's confidence is tested.
Visible_first(kp1, kp2) == kp1.confidence > Threshold

\* kp1.confidence > 0.3 and kp2.confidence > 0.3
Visible(kp1, kp2) == kp1.confidence > Threshold /\ kp2.confidence > Threshold

Segment(kp1, kp2) ==
    [from |-> [x |-> kp1.x, y |-> kp1.y],
     to |-> [x |-> kp2.x, y |-> kp2.y],
     confidence |-> Min(kp1.confidence, kp2.confidence)]

\* One "for connection in ...CONNECTIONS" loop over one keypoint list.
Connections(keypoints, table) ==
    LET Emits(connection) ==
            /\ InBounds(keypoints, connection)
            /\ Visible(At(keypoints, connection[1]),
                       At(keypoints, connection[2]))
        kept == SelectSeq(table, Emits)
    IN  [k \in 1..Len(kept) |->
            Segment(At(keypoints, kept[k][1]), At(keypoints, kept[k][2]))]

FrameData(pose) ==
    [timestamp |-> pose.timestamp,
     frame_idx |-> pose.frame_idx,
     body_connections |-> Connections(pose.body_keypoints, BODY_CONNECTIONS),
     hand_connections_left |->
         Connections(pose.hand_keypoints_left, HAND_CONNECTIONS),
     hand_connections_right |->
         Connections(pose.hand_keypoints_right, HAND_CONNECTIONS),
     face_connections |-> <<>>]

_generate_stick_figure_data(poses) ==
    [frames |-> [k \in 1..Len(poses) |-> FrameData(poses[k])],
     keypoint_names |-> [body |-> BODY_KEYPOINTS, hand |-> HAND_KEYPOINTS],
     connections |-> [body |-> BODY_CONNECTIONS, hand |-> HAND_CONNECTIONS]]

(***************************************************************************)
(* The score formulas of PoseAnalyzer.                                     *)
(***************************************************************************)
\* Faulty variant: range(2, len(poses) - 1).
SmoothnessTriples_late(poses) == [k \in 1..(Len(poses) - 3) |-> k + 1]

\* for i in range(1, len(poses) - 1): the centre index of each triple.
SmoothnessTriples(poses) == [k \in 1..(Len(poses) - 2) |-> k]

\* The acceleration magnitudes one triple appends to velocity_changes.
VelocityChangesAt(poses, i) ==
    LET prev == At(poses, i - 1).body_keypoints
        curr == At(poses, i).body_keypoints
        next == At(poses, i + 1).body_keypoints
        n == Min(Len(prev), Min(Len(curr), Len(next)))
        Ok(j) == /\ prev[j].confidence > Threshold
                 /\ curr[j].confidence > Threshold
                 /\ next[j].confidence > Threshold
        js == SelectSeq([j \in 1..n |-> j], Ok)
    IN  [k \in 1..Len(js) |->
            LET j == js[k]
                vel1_x == curr[j].x - prev[j].x
                vel1_y == curr[j].y - prev[j].y
                vel2_x == next[j].x - curr[j].x
                vel2_y == next[j].y - curr[j].y
            IN  Magnitude(vel2_x - vel1_x, vel2_y - vel1_y)]

\* Faulty variant: without any acceleration sample the motion counts as
\* perfectly smooth.
_calculate_motion_smoothness_default100(poses) ==
    IF Len(poses) < 2 THEN 0
    ELSE LET triples == SmoothnessTriples(poses)
             velocity_changes ==
                 Flatten([k \in 1..Len(triples) |->
                             VelocityChangesAt(poses, triples[k])])
         IN  IF velocity_changes = <<>> THEN Fix(100, 1)
             ELSE Max(0, Fix(100, 1) - Mul(np_std(velocity_changes), Fix(10, 1)))

_calculate_motion_smoothness(poses) ==
    IF Len(poses) < 2 THEN 0
    ELSE LET triples == SmoothnessTriples(poses)
             velocity_changes ==
                 Flatten([k \in 1..Len(triples) |->
                             VelocityChangesAt(poses, triples[k])])
         IN  IF velocity_changes = <<>> THEN 0
             ELSE Max(0, Fix(100, 1) - Mul(np_std(velocity_changes), Fix(10, 1)))

\* if len(pose.body_keypoints) >= 17
HasFullBody(pose) == Len(pose.body_keypoints) >= 17

\* The frames the balance loop scores: all four joints above the threshold.
BalanceQualifies(pose) ==
    /\ HasFullBody(pose)
    /\ At(pose.body_keypoints, 11).confidence > Threshold
    /\ At(pose.body_keypoints, 12).confidence > Threshold
    /\ At(pose.body_keypoints, 15).confidence > Threshold
    /\ At(pose.body_keypoints, 16).confidence > Threshold

\* Faulty variant: the per-frame balance is not clamped at 0.
FrameBalance_unclamped(pose) ==
    LET left_hip == At(pose.body_keypoints, 11)
        right_hip == At(pose.body_keypoints, 12)
        left_ankle == At(pose.body_keypoints, 15)
        right_ankle == At(pose.body_keypoints, 16)
        com_x == (left_hip.x + right_hip.x) \div 2
        com_y == (left_hip.y + right_hip.y) \div 2
        base_x == (left_ankle.x + right_ankle.x) \div 2
        base_y == (left_ankle.y + right_ankle.y) \div 2
        distance == Magnitude(com_x - base_x, com_y - base_y)
    IN  Fix(100, 1) - Mul(distance, Fix(1, 2))

FrameBalance(pose) ==
    LET left_hip == At(pose.body_keypoints, 11)
        right_hip == At(pose.body_keypoints, 12)
        left_ankle == At(pose.body_keypoints, 15)
        right_ankle == At(pose.body_keypoints, 16)
        com_x == (left_hip.x + right_hip.x) \div 2
        com_y == (left_hip.y + right_hip.y) \div 2
        base_x == (left_ankle.x + right_ankle.x) \div 2
        base_y == (left_ankle.y + right_ankle.y) \div 2
        distance == Magnitude(com_x - base_x, com_y - base_y)
    IN  Max(0, Fix(100, 1) - Mul(distance, Fix(1, 2)))

\* np.mean(balance_scores) if balance_scores else 0.0
MeanOrZero(scores) == IF scores = <<>> THEN 0 ELSE np_mean(scores)

\* Faulty variant: the mean is taken over all frames, not the qualifying.
_calculate_balance_score_allframes(poses) ==
    IF poses = <<>> THEN 0
    ELSE LET qualifying == SelectSeq(poses, BalanceQualifies)
         IN  SumSeq([k \in 1..Len(qualifying) |->
                        FrameBalance(qualifying[k])]) \div Len(poses)

_calculate_balance_score(poses) ==
    IF poses = <<>> THEN 0
    ELSE LET qualifying == SelectSeq(poses, BalanceQualifies)
         IN  MeanOrZero([k \in 1..Len(qualifying) |->
                            FrameBalance(qualifying[k])])

\* One pass of the energy loop: <<frame_movement, keypoint_count>>.
PairMovement(prev_pose, curr_pose) ==
    LET prev == prev_pose.body_keypoints
        curr == curr_pose.body_keypoints
        Ok(j) == /\ prev[j].confidence > Threshold
                 /\ curr[j].confidence > Threshold
        js == SelectSeq([j \in 1..Min(Len(prev), Len(curr)) |-> j], Ok)
    IN  <<SumSeq([k \in 1..Len(js) |->
                    Magnitude(curr[js[k]].x - prev[js[k]].x,
                              curr[js[k]].y - prev[js[k]].y)]),
          Len(js)>>

\* energy_score = min(100.0, average_movement * 2.0)
EnergyScale(average_movement) ==
    Min(Fix(100, 1), Mul(average_movement, Fix(2, 1)))

\* Faulty variant: the pairs without a qualifying keypoint are counted too.
_calculate_energy_score_allpairs(poses) ==
    IF Len(poses) < 2 THEN 0
    ELSE LET pairs == [i \in 1..(Len(poses) - 1) |->
                          PairMovement(poses[i], poses[i + 1])]
             Counted(p) == p[2] > 0
             counted == SelectSeq(pairs, Counted)
             total_movement ==
                 SumSeq([k \in 1..Len(counted) |->
                            counted[k][1] \div counted[k][2]])
         IN  EnergyScale(total_movement \div Len(pairs))

_calculate_energy_score(poses) ==
    IF Len(poses) < 2 THEN 0
    ELSE LET pairs == [i \in 1..(Len(poses) - 1) |->
                          PairMovement(poses[i], poses[i + 1])]
             Counted(p) == p[2] > 0
             counted == SelectSeq(pairs, Counted)
             total_movement ==
                 SumSeq([k \in 1..Len(counted) |->
                            counted[k][1] \div counted[k][2]])
             frame_count == Len(counted)
         IN  IF frame_count = 0 THEN 0
             ELSE EnergyScale(total_movement \div frame_count)

\* The movements one hand list of one frame pair appends to hand_movements.
HandMovements(prev, curr) ==
    IF prev = <<>> \/ curr = <<>> THEN <<>>
    ELSE LET Ok(j) == /\ prev[j].confidence > Threshold
                      /\ curr[j].confidence > Threshold
             js == SelectSeq([j \in 1..Min(Len(prev), Len(curr)) |-> j], Ok)
         IN  [k \in 1..Len(js) |->
                 Magnitude(curr[js[k]].x - prev[js[k]].x,
                           curr[js[k]].y - prev[js[k]].y)]

_calculate_hand_activity(poses) ==
    IF Len(poses) < 2 THEN 0
    ELSE LET hand_movements ==
                 Flatten([i \in 1..(Len(poses) - 1) |->
                     HandMovements(poses[i].hand_keypoints_left,
                                   poses[i + 1].hand_keypoints_left)
                     \o HandMovements(poses[i].hand_keypoints_right,
                                      poses[i + 1].hand_keypoints_right)])
         IN  IF hand_movements = <<>> THEN 0
             ELSE Min(Fix(100, 1), Mul(np_mean(hand_movements), Fix(5, 1)))

PostureQualifies(pose) ==
    /\ HasFullBody(pose)
    /\ At(pose.body_keypoints, 0).confidence > Threshold
    /\ At(pose.body_keypoints, 5).confidence > Threshold
    /\ At(pose.body_keypoints, 6).confidence > Threshold
    /\ At(pose.body_keypoints, 11).confidence > Threshold
    /\ At(pose.body_keypoints, 12).confidence > Threshold

FramePosture(pose) ==
    LET left_shoulder == At(pose.body_keypoints, 5)
        right_shoulder == At(pose.body_keypoints, 6)
        left_hip == At(pose.body_keypoints, 11)
        right_hip == At(pose.body_keypoints, 12)
        shoulder_center_x == (left_shoulder.x + right_shoulder.x) \div 2
        hip_center_x == (left_hip.x + right_hip.x) \div 2
        spine_deviation == Abs(shoulder_center_x - hip_center_x)
    IN  Max(0, Fix(100, 1) - Mul(spine_deviation, Fix(1, 2)))

_calculate_posture_stability(poses) ==
    IF poses = <<>> THEN 0
    ELSE LET qualifying == SelectSeq(poses, PostureQualifies)
         IN  MeanOrZero([k \in 1..Len(qualifying) |->
                            FramePosture(qualifying[k])])

\* The dictionary returned for an empty list of poses.
EmptyScores ==
    [flow |-> 0, balance |-> 0, smoothness |-> 0, energy |-> 0]

\* Faulty variant: hand activity enters the flow average.
_calculate_enhanced_scores_withhands(poses) ==
    IF poses = <<>> THEN EmptyScores
    ELSE LET smoothness_score == _calculate_motion_smoothness(poses)
             balance_score == _calculate_balance_score(poses)
             energy_score == _calculate_energy_score(poses)
             hand_score == _calculate_hand_activity(poses)
             flow_score ==
                 (smoothness_score + balance_score + energy_score
                  + hand_score) \div 4
         IN  [flow |-> Min(Fix(100, 1), flow_score),
              balance |-> Min(Fix(100, 1), balance_score),
              smoothness |-> Min(Fix(100, 1), smoothness_score),
              energy |-> Min(Fix(100, 1), energy_score),
              hand_activity |-> hand_score,
              posture_stability |-> _calculate_posture_stability(poses)]

_calculate_enhanced_scores(poses) ==
    IF poses = <<>> THEN EmptyScores
    ELSE LET smoothness_score == _calculate_motion_smoothness(poses)
             balance_score == _calculate_balance_score(poses)
             energy_score == _calculate_energy_score(poses)
             flow_score ==
                 (smoothness_score + balance_score + energy_score) \div 3
         IN  [flow |-> Min(Fix(100, 1), flow_score),
              balance |-> Min(Fix(100, 1), balance_score),
              smoothness |-> Min(Fix(100, 1), smoothness_score),
              energy |-> Min(Fix(100, 1), energy_score),
              hand_activity |-> _calculate_hand_activity(poses),
              posture_stability |-> _calculate_posture_stability(poses)]

(***************************************************************************)
(* Where the four stages can raise: a list read outside the list           *)
(* (IndexError) and a division by zero (ZeroDivisionError), each under the *)
(* conditions the code puts before it.                                     *)
(***************************************************************************)
\* list[k] raises IndexError.
IndexError(list, k) == k >= Len(list) \/ k < -Len(list)

\* n / d raises ZeroDivisionError.
ZeroDivisionError(d) == d = 0

\* One "for i in range(min(len(list1), len(list2)))" loop reading list1[i]
\* and list2[i].
PairedReadRaises(list1, list2) ==
    \E i \in 0..(Min(Len(list1), Len(list2)) - 1) :
        IndexError(list1, i) \/ IndexError(list2, i)

_interpolate_single_pose_raises(pose1, pose2) ==
    \/ PairedReadRaises(pose1.body_keypoints, pose2.body_keypoints)
    \/ PairedReadRaises(pose1.hand_keypoints_left, pose2.hand_keypoints_left)
    \/ PairedReadRaises(pose1.hand_keypoints_right,
                        pose2.hand_keypoints_right)
    \/ PairedReadRaises(pose1.face_keypoints, pose2.face_keypoints)

interpolate_poses_raises(poses, factor) ==
    /\ ~(Len(poses) < 2)
    /\ \/ \E i \in 0..(Len(poses) - 2) :
             \/ IndexError(poses, i)
             \/ IndexError(poses, i + 1)
             \/ /\ InterpSteps(factor) # {}
                /\ \/ ZeroDivisionError(factor)
                   \/ _interpolate_single_pose_raises(At(poses, i),
                                                      At(poses, i + 1))
       \/ IndexError(poses, -1)

_gaussian_smooth_pose_raises(window_poses, center_idx) ==
    IF center_idx >= Len(window_poses) THEN IndexError(window_poses, -1)
    ELSE IndexError(window_poses, center_idx)

smooth_poses_raises(poses, window) ==
    /\ ~(Len(poses) < window)
    /\ \E i \in 0..(Len(poses) - 1) :
          LET start_idx == Max(0, i - window \div 2)
              end_idx == Min(Len(poses), i + window \div 2 + 1)
          IN  _gaussian_smooth_pose_raises(
                  PySlice(poses, start_idx, end_idx), i - start_idx)

\* One "for connection in ...CONNECTIONS" loop: the two reads behind the
\* bounds test.
ConnectionsRaise(keypoints, table) ==
    \E k \in 1..Len(table) :
        /\ InBounds(keypoints, table[k])
        /\ \/ IndexError(keypoints, table[k][1])
           \/ IndexError(keypoints, table[k][2])

_generate_stick_figure_data_raises(poses) ==
    \E k \in 1..Len(poses) :
        \/ ConnectionsRaise(poses[k].body_keypoints, BODY_CONNECTIONS)
        \/ ConnectionsRaise(poses[k].hand_keypoints_left, HAND_CONNECTIONS)
        \/ ConnectionsRaise(poses[k].hand_keypoints_right, HAND_CONNECTIONS)

_calculate_motion_smoothness_raises(poses) ==
    /\ ~(Len(poses) < 2)
    /\ \E i \in 1..(Len(poses) - 2) :
          \/ IndexError(poses, i - 1)
          \/ IndexError(poses, i + 1)
          \/ PairedReadRaises(At(poses, i - 1).body_keypoints,
                              At(poses, i).body_keypoints)
          \/ PairedReadRaises(At(poses, i).body_keypoints,
                              At(poses, i + 1).body_keypoints)

\* The reads behind "if len(pose.body_keypoints) >= 17" of one frame.
FullBodyReadRaises(pose, joints) ==
    /\ HasFullBody(pose)
    /\ \E j \in joints : IndexError(pose.body_keypoints, j)

_calculate_balance_score_raises(poses) ==
    \E k \in 1..Len(poses) : FullBodyReadRaises(poses[k], {11, 12, 15, 16})

\* keypoint_count of one pass of the energy loop.
KeypointCount(prev_pose, curr_pose) ==
    LET prev == prev_pose.body_keypoints
        curr == curr_pose.body_keypoints
    IN  Cardinality({j \in 1..Min(Len(prev), Len(curr)) :
                        /\ prev[j].confidence > Threshold
                        /\ curr[j].confidence > Threshold})

_calculate_energy_score_raises(poses) ==
    /\ ~(Len(poses) < 2)
    /\ LET keypoint_count == [i \in 1..(Len(poses) - 1) |->
                                 KeypointCount(poses[i], poses[i + 1])]
           frame_count ==
               Cardinality({i \in 1..(Len(poses) - 1) :
                               keypoint_count[i] > 0})
       IN  \/ \E i \in 1..(Len(poses) - 1) :
                 \/ PairedReadRaises(poses[i].body_keypoints,
                                     poses[i + 1].body_keypoints)
                 \/ /\ keypoint_count[i] > 0
                    /\ ZeroDivisionError(keypoint_count[i])
           \/ ~(frame_count = 0) /\ ZeroDivisionError(frame_count)

_calculate_hand_activity_raises(poses) ==
    /\ ~(Len(poses) < 2)
    /\ \E i \in 1..(Len(poses) - 1) :
          \/ PairedReadRaises(poses[i].hand_keypoints_left,
                              poses[i + 1].hand_keypoints_left)
          \/ PairedReadRaises(poses[i].hand_keypoints_right,
                              poses[i + 1].hand_keypoints_right)

_calculate_posture_stability_raises(poses) ==
    \E k \in 1..Len(poses) :
        FullBodyReadRaises(poses[k], {0, 5, 6, 11, 12})

_calculate_enhanced_scores_raises(poses) ==
    /\ poses # <<>>
    /\ \/ _calculate_motion_smoothness_raises(poses)
       \/ _calculate_balance_score_raises(poses)
       \/ _calculate_energy_score_raises(poses)
       \/ _calculate_hand_activity_raises(poses)
       \/ _calculate_posture_stability_raises(poses)

\* What the caller of a stage sees when the stage raises.
Raised(stage) == [exception |-> "IndexError or ZeroDivisionError",
                  message |-> [text |-> stage]]

(***************************************************************************)
(* Keypoint lists the detector can hand over.  A body list is a pose       *)
(* (where the joints are), a confidence pattern and a length.              *)
(***************************************************************************)
ShapeX(shape, k) ==
    CASE shape = "stand" -> 100
      [] shape = "lean"  -> 100 + 2 * k
      [] shape = "far"   -> IF k >= 13 THEN 340 ELSE 100
      [] shape = "level" -> 0

ShapeY(shape, k) ==
    CASE shape = "level" -> IF k % 2 = 1 THEN 1 ELSE -1
      [] OTHER -> 20 + 10 * k

ConfAt(pattern, k) ==
    CASE pattern = "high"  -> Fix(1, 1)
      [] pattern = "mixed" -> IF k % 4 = 0 THEN Fix(9, 10)
                              ELSE IF k % 4 = 1 THEN Fix(2, 10)
                              ELSE IF k % 4 = 2 THEN Fix(6, 10)
                              ELSE Fix(4, 10)
      [] pattern = "edge"  -> IF k \in {6, 14} THEN Fix(3, 10)
                              ELSE Fix(7, 10)
      [] pattern = "torso" -> IF k \in {0, 5, 6, 11, 12} THEN Fix(8, 10)
                              ELSE 0

\* body_keypoints.append(PoseKeypoint(x=float(x), y=float(y), confidence=...))
BodyList(len, shape, pattern) ==
    [k \in 1..len |->
        PoseKeypoint(ShapeX(shape, k - 1) * Unit, ShapeY(shape, k - 1) * Unit,
                     ConfAt(pattern, k - 1))]

\* np.random.normal(0, 10): the draws for hand keypoint i, in pixels.
OffsetX(draw, i) == IF draw = 0 THEN (i % 5) * 3 - 6 ELSE 12 - i
OffsetY(draw, i) == IF draw = 0 THEN 4 - (i % 3) * 4 ELSE (i % 7) * 2 - 5

\* OpenPoseDetector._extract_hand_keypoints
_extract_hand_keypoints(wrist, draw) ==
    [k \in 1..21 |->
        PoseKeypoint(wrist.x + OffsetX(draw, k - 1) * Unit,
                     wrist.y + OffsetY(draw, k - 1) * Unit,
                     Max(0, wrist.confidence - Fix(1, 10)))]

\* OpenPoseDetector._detect_hands: <<left_hand, right_hand>>.
_detect_hands(body_keypoints, draw) ==
    IF Len(body_keypoints) >= 10
    THEN LET left_wrist == At(body_keypoints, 9)
             right_wrist == At(body_keypoints, 10)
         IN  <<IF left_wrist.confidence > Threshold
               THEN _extract_hand_keypoints(left_wrist, draw) ELSE <<>>,
               IF right_wrist.confidence > Threshold
               THEN _extract_hand_keypoints(right_wrist, 1 - draw) ELSE <<>> >>
    ELSE << <<>>, <<>> >>

\* OpenPoseDetector._detect_face
_detect_face(body_keypoints) ==
    IF Len(body_keypoints) >= 5 THEN SubSeq(body_keypoints, 1, 5) ELSE <<>>

\* OpenPoseDetector.detect_pose_frame, given what the pose model returned.
detect_pose_frame(body_keypoints, draw, frame_idx, timestamp) ==
    LET hands == _detect_hands(body_keypoints, draw)
    IN  PoseFrame(body_keypoints, hands[1], hands[2],
                  _detect_face(body_keypoints), timestamp, frame_idx)

\* What the pose model returns for an image: no person, or 17 keypoints.
ModelOutputs ==
    { <<>>,
      BodyList(17, "stand", "high"),
      BodyList(17, "lean", "mixed") }

\* Frames handed to a stage directly (timestamp and frame_idx are set when
\* the frame joins the Sequence): detector frames, and a frame whose lists
\* are short and whose face keypoints carry depth.
StageFrames ==
    { detect_pose_frame(BodyList(17, "level", "high"), 0, 0, 0),
      detect_pose_frame(BodyList(17, "lean", "mixed"), 1, 0, 0),
      detect_pose_frame(BodyList(17, "far", "edge"), 0, 0, 0),
      detect_pose_frame(<<>>, 0, 0, 0),
      PoseFrame(BodyList(16, "lean", "torso"),
                SubSeq(_extract_hand_keypoints(
                           PoseKeypoint(0, 0, Fix(1, 2)), 1), 1, 5),
                _extract_hand_keypoints(PoseKeypoint(0, 0, Fix(1, 1)), 0),
                [k \in 1..3 |->
                    WithDepth(BodyList(3, "lean", "high")[k], 4 * k * Unit)],
                0, 0) }

(***************************************************************************)
(* Settings (src/src/core/config.py) and OpenPoseDetector.__init__.        *)
(***************************************************************************)
\* analysis_min_frames: the default 30, and values an environment sets.
MinFramesChoices == {0, 2, 30}

Settings(min_frames, factor, window) ==
    [frame_extraction_fps |-> 30,
     openpose_interpolation_factor |-> factor,
     openpose_smoothing_window |-> window,
     analysis_min_frames |-> min_frames]

DefaultSettings == Settings(30, 10, 5)

\* self.smoothing_window = 5; self.interpolation_factor = 10
NewDetector == [smoothing_window |-> 5, interpolation_factor |-> 10]

\* timestamp = i / frame_rate, in frame periods.
Timestamp(i) == i * Unit

(***************************************************************************)
(* The file system and YouTubeDownloader (src/src/core/downloader.py).     *)
(* A path is the tuple of its components, None the empty tuple; disk holds *)
(* the regular files and the directories that exist.                       *)
(***************************************************************************)
None == <<>>

\* settings.temp_dir
TempDir == <<"/tmp/flowstate">>

\* settings.temp_dir / "frames"
FramesDir == TempDir \o <<"frames">>

\* settings.output_dir / "viewer"
ViewerDir == <<"output", "viewer">>

\* Path("input.mp4"), in the working directory.
InputFile == <<"cwd", "input.mp4">>

\* Local videos a caller may hand over, two of them with the same name.
UserPaths ==
    {InputFile, <<"videos", "input.mp4">>, <<"cwd", "other.mp4">>}

\* video_path.name
Name(path) == path[Len(path)]

\* The files of video_path's name under the temp directory.
TempPaths == {TempDir \o <<Name(p)>> : p \in UserPaths}

\* self.temp_video_path = None
NewDownloader == [temp_video_path |-> None]

\* process_local_video raises: the video is not a file, or shutil.copy2
\* finds no temp directory to copy into.
process_local_video_raises(d, video_path) ==
    \/ video_path \notin d.files
    \/ /\ TempDir \o <<Name(video_path)>> \notin d.files
       /\ TempDir \notin d.dirs

process_local_video_error(d, video_path) ==
    IF video_path \notin d.files
    THEN <<"VideoDownloadError", "Local video file not found">>
    ELSE <<"FileNotFoundError", "shutil.copy2">>

\* temp_path = settings.temp_dir / video_path.name; the file system after
\* "if not temp_path.exists(): shutil.copy2(video_path, temp_path)".
process_local_video_disk(d, video_path) ==
    LET temp_path == TempDir \o <<Name(video_path)>>
    IN  IF temp_path \notin d.files
        THEN [d EXCEPT !.files = @ \cup {temp_path}]
        ELSE d

\* self.temp_video_path after the call, which is also the path returned.
process_local_video(d, video_path) ==
    LET temp_path == TempDir \o <<Name(video_path)>>
    IN  IF temp_path \notin d.files THEN temp_path ELSE video_path

\* The video_info dictionary of a local file: id and uploader.
LocalVideoInfo(video_path) == <<Name(video_path), "Local File">>

\* The files below a directory.
FilesUnder(d, dir) ==
    {p \in d.files : Len(p) > Len(dir) /\ SubSeq(p, 1, Len(dir)) = dir}

\* cleanup(): unlink temp_video_path if it exists, remove the frames
\* directory, remove the temp directory if nothing is left in it.
cleanup(d, temp_video_path) ==
    LET unlinked ==
            IF temp_video_path # None /\ temp_video_path \in d.files
            THEN d.files \ {temp_video_path}
            ELSE d.files
        without_frames ==
            [files |-> unlinked \ FilesUnder(d, FramesDir),
             dirs |-> d.dirs \ {FramesDir}]
    IN  IF TempDir \in without_frames.dirs
           /\ FilesUnder(without_frames, TempDir) = {}
        THEN [without_frames EXCEPT !.dirs = @ \ {TempDir}]
        ELSE without_frames

\* frames_output_dir.mkdir(parents=True, exist_ok=True)
MakeFramesDir(d) == [d EXCEPT !.dirs = @ \cup {TempDir, FramesDir}]

\* output_viewer_dir.mkdir(parents=True, exist_ok=True)
MakeViewerDir(d) == [d EXCEPT !.dirs = @ \cup {ViewerDir}]

\* The pipeline is not running.
PipelineIdle ==
    /\ detector = NewDetector
    /\ image_files = <<>>
    /\ idx = 0
    /\ pose_frames = <<>>
    /\ detected_frames_count = 0
    /\ interpolated_poses = <<>>
    /\ smoothed_poses = <<>>
    /\ stick_figure_data = <<>>
    /\ overall_scores = <<>>

\* No command is running and no downloader call has been made.
CliIdle ==
    /\ locals = None
    /\ console = {}
    /\ disk = [files |-> {}, dirs |-> {TempDir}]
    /\ downloader = NewDownloader

(***************************************************************************)
(* Calls of process_local_video and cleanup on one YouTubeDownloader       *)
(* (DownloaderSpec).  result is what the last call returned or raised.     *)
(***************************************************************************)
\* config.py creates the temp directory on import; files of any name may
\* already lie in it, and a frames directory may be left from a run before.
DownloaderInit ==
    /\ settings = DefaultSettings
    /\ pc = "downloader"
    /\ result = None
    /\ PipelineIdle
    /\ locals = None
    /\ console = {}
    /\ \E user \in SUBSET UserPaths, temp \in SUBSET TempPaths,
          frames \in SUBSET {FramesDir} :
          disk = [files |-> user \cup temp, dirs |-> {TempDir} \cup frames]
    /\ downloader = NewDownloader

\* downloader.process_local_video(video_path)
ProcessLocalVideo ==
    /\ pc = "downloader"
    /\ \E video_path \in UserPaths :
          IF process_local_video_raises(disk, video_path)
          THEN /\ result' = process_local_video_error(disk, video_path)
               /\ UNCHANGED <<disk, downloader>>
          ELSE /\ disk' = process_local_video_disk(disk, video_path)
               /\ downloader' =
                      [downloader EXCEPT !.temp_video_path =
                           process_local_video(disk, video_path)]
               /\ result' = <<process_local_video(disk, video_path),
                              LocalVideoInfo(video_path)>>
    /\ UNCHANGED <<settings, pc, pipeline_vars, locals, console>>

\* downloader.cleanup()
Cleanup ==
    /\ pc = "downloader"
    /\ disk' = cleanup(disk, downloader.temp_video_path)
    /\ result' = None
    /\ UNCHANGED <<settings, pc, pipeline_vars, locals, console, downloader>>

DownloaderNext ==
    \/ ProcessLocalVideo
    \/ Cleanup

DownloaderSpec == DownloaderInit /\ [][DownloaderNext]_vars

(***************************************************************************)
(* The main command (src/src/cli/app.py).  locals holds main's options and *)
(* local variables, console the messages printed so far, pc the statement  *)
(* reached, result the exit code or the exception that left main.          *)
(***************************************************************************)
ValidUrl == <<"https://youtube.com/watch?v=VIDEO_ID">>
InvalidUrl == <<"not a video url">>

\* Where yt-dlp writes the download: settings.temp_dir / "%(id)s.%(ext)s".
DownloadedFile == TempDir \o <<"VIDEO_ID.mp4">>

\* How a call of download_video can end.
DownloadOutcomes == {"downloaded", "InvalidURLError", "VideoDownloadError"}

MainInit ==
    /\ settings = DefaultSettings
    /\ pc = "main"
    /\ result = None
    /\ PipelineIdle
    /\ \E url \in {None, ValidUrl, InvalidUrl}, serve \in BOOLEAN,
          skip_publish \in BOOLEAN :
          locals = [url |-> url, serve |-> serve,
                    skip_publish |-> skip_publish, video_path |-> None,
                    video_info |-> None, frames_dir |-> None,
                    pose_data |-> None, viewer_dir |-> None,
                    server |-> None]
    /\ console = {}
    /\ \E user \in SUBSET {InputFile}, temp \in SUBSET TempPaths :
          disk = [files |-> user \cup temp, dirs |-> {TempDir}]
    /\ downloader = NewDownloader

\* if not url and input_file_path.exists() and input_file_path.is_file():
\*     video_path, video_info = cli.downloader.process_local_video(...)
LocalVideo ==
    /\ pc = "main"
    /\ locals.url = None
    /\ InputFile \in disk.files
    /\ console' = console \cup {"Found local video"}
    /\ IF process_local_video_raises(disk, InputFile)
       THEN /\ result' = process_local_video_error(disk, InputFile)
            /\ pc' = "raised"
            /\ UNCHANGED <<locals, disk, downloader>>
       ELSE /\ disk' = process_local_video_disk(disk, InputFile)
            /\ downloader' =
                   [downloader EXCEPT !.temp_video_path =
                        process_local_video(disk, InputFile)]
            /\ locals' =
                   [locals EXCEPT
                        !.video_path = process_local_video(disk, InputFile),
                        !.video_info = LocalVideoInfo(InputFile)]
            /\ pc' = "video_check"
            /\ UNCHANGED result
    /\ UNCHANGED <<settings, pipeline_vars>>

\* validate_youtube_url(url); cli.downloader.download_video(url), as both
\* the --url branch and the prompt loop call them.  InvalidURLError is
\* caught by the caller, VideoDownloadError is not.
Download(url, outcome, on_invalid) ==
    IF url = InvalidUrl \/ outcome = "InvalidURLError"
    THEN /\ console' = console \cup {"Invalid URL"}
         /\ pc' = on_invalid
         /\ result' = IF on_invalid = "returned" THEN 1 ELSE result
         /\ locals' = [locals EXCEPT !.url = url]
         /\ UNCHANGED <<disk, downloader>>
    ELSE IF outcome = "VideoDownloadError"
    THEN /\ result' = <<"VideoDownloadError", "Failed to download video">>
         /\ pc' = "raised"
         /\ locals' = [locals EXCEPT !.url = url]
         /\ UNCHANGED <<console, disk, downloader>>
    ELSE /\ disk' = [disk EXCEPT !.files = @ \cup {DownloadedFile}]
         /\ downloader' =
                [downloader EXCEPT !.temp_video_path = DownloadedFile]
         /\ locals' = [locals EXCEPT !.url = url,
                                     !.video_path = DownloadedFile,
                                     !.video_info = <<"VIDEO_ID", "YouTube">>]
         /\ pc' = "video_check"
         /\ UNCHANGED <<console, result>>

\* elif url: ... except InvalidURLError: return 1
DownloadVideo ==
    /\ pc = "main"
    /\ locals.url # None
    /\ \E outcome \in DownloadOutcomes :
          Download(locals.url, outcome, "returned")
    /\ UNCHANGED <<settings, pipeline_vars>>

\* else: no URL and no input.mp4, the welcome message.
Welcome ==
    /\ pc = "main"
    /\ locals.url = None
    /\ InputFile \notin disk.files
    /\ console' = console \cup {"Please enter the YouTube URL"}
    /\ pc' = "ask_url"
    /\ UNCHANGED <<settings, result, pipeline_vars, locals, disk, downloader>>

\* One pass of "while True: url = console.input(...)".
AskUrl ==
    /\ pc = "ask_url"
    /\ \E url \in {ValidUrl, InvalidUrl}, outcome \in DownloadOutcomes :
          Download(url, outcome, "ask_url")
    /\ UNCHANGED <<settings, pipeline_vars>>

\* if not video_path or not video_info: return 1
CheckVideo ==
    /\ pc = "video_check"
    /\ IF locals.video_path = None \/ locals.video_info = None
       THEN /\ console' = console \cup {"Video processing failed. Exiting."}
            /\ result' = 1
            /\ pc' = "returned"
       ELSE /\ pc' = "extract_frames"
            /\ UNCHANGED <<console, result>>
    /\ UNCHANGED <<settings, pipeline_vars, locals, disk, downloader>>

\* except FlowStateError / except Exception: print, return 1; and the
\* finally clause, cli.downloader.cleanup(), on the way out.
FailInTry(d, message) ==
    /\ console' = console \cup {message}
    /\ disk' = cleanup(d, downloader.temp_video_path)
    /\ result' = 1
    /\ pc' = "returned"
    /\ UNCHANGED locals

\* frames_dir = cli.downloader.extract_frames(video_path)
ExtractFrames ==
    /\ pc = "extract_frames"
    /\ \E extracted \in BOOLEAN :
          IF extracted
          THEN /\ disk' = MakeFramesDir(disk)
               /\ locals' = [locals EXCEPT !.frames_dir = FramesDir]
               /\ console' = console \cup {"Frames extracted successfully"}
               /\ pc' = "analyze_video"
               /\ UNCHANGED result
          ELSE FailInTry(MakeFramesDir(disk), "VideoDownloadError")
    /\ UNCHANGED <<settings, pipeline_vars, downloader>>

\* pose_data = cli.analyzer.analyze_video(frames_dir)
AnalyzeVideo ==
    /\ pc = "analyze_video"
    /\ \E analyzed \in BOOLEAN :
          IF analyzed
          THEN /\ locals' = [locals EXCEPT !.pose_data = <<"pose_data">>]
               /\ console' = console \cup {"Analysis complete!"}
               /\ pc' = "generate_viewer"
               /\ UNCHANGED <<disk, result>>
          ELSE FailInTry(disk, "PoseDetectionError")
    /\ UNCHANGED <<settings, pipeline_vars, downloader>>

\* viewer_dir = cli.viewer_builder.generate_viewer(pose_data, video_info);
\* the try block ends, and the finally clause runs cleanup().
GenerateViewer ==
    /\ pc = "generate_viewer"
    /\ \E generated \in BOOLEAN :
          IF generated
          THEN /\ locals' = [locals EXCEPT !.viewer_dir = ViewerDir]
               /\ console' = console \cup {"3D viewer generated"}
               /\ disk' = cleanup(MakeViewerDir(disk),
                                  downloader.temp_video_path)
               /\ pc' = "after_try"
               /\ UNCHANGED result
          ELSE FailInTry(MakeViewerDir(disk), "ViewerBuildError")
    /\ UNCHANGED <<settings, pipeline_vars, downloader>>

\* The publishing step and the web server, for the answers the user gives
\* to the two prompts, the wizard's success and the server's start: the
\* messages printed, the exit code, and the server started.
PublishAndServe(viewer_dir, serve, skip_publish, answers) ==
    LET publish == answers[1]
        success == answers[2]
        fallback == answers[3]
        started == answers[4]
        asked == ~skip_publish /\ ~serve
        prompts ==
            IF ~asked THEN {}
            ELSE {"Would you like to publish to GitHub Pages?"}
                 \cup (IF publish /\ ~success
                       THEN {"GitHub Pages deployment failed."}
                       ELSE {})
        serving == serve \/ (asked /\ publish /\ ~success /\ fallback)
    IN  IF asked /\ publish /\ success
        THEN [messages |-> prompts, code |-> 0, server |-> None]
        ELSE IF asked /\ publish /\ ~fallback
        THEN [messages |-> prompts, code |-> 1, server |-> None]
        ELSE IF serving /\ started
        THEN [messages |-> prompts \cup
                  {"Starting web server to host visualization...",
                   "Web server started successfully!"},
              code |-> 0,
              server |-> <<"FlowStateServer", viewer_dir>>]
        ELSE IF serving
        THEN [messages |-> prompts \cup
                  {"Starting web server to host visualization...",
                   "Failed to start web server"},
              code |-> 1,
              server |-> <<"FlowStateServer", viewer_dir>>]
        ELSE [messages |-> prompts \cup {"Analysis saved to"},
              code |-> 0, server |-> None]

\* After the try statement: "viewer_dir, video_info = None, None", the
\* locals() test, "if not viewer_dir: ... return 1", then the publishing
\* step and the web server.
AfterTry ==
    /\ pc = "after_try"
    /\ LET viewer_dir == None
           video_info == None
       IN  IF viewer_dir = None
           THEN /\ console' = console \cup
                       {"Analysis failed. Please try with a different video."}
                /\ locals' = [locals EXCEPT !.viewer_dir = viewer_dir,
                                            !.video_info = video_info]
                /\ result' = 1
           ELSE \E publish \in BOOLEAN, success \in BOOLEAN,
                   fallback \in BOOLEAN, started \in BOOLEAN :
                   LET end == PublishAndServe(
                                  viewer_dir, locals.serve,
                                  locals.skip_publish,
                                  <<publish, success, fallback, started>>)
                   IN  /\ console' = console \cup end.messages
                       /\ locals' = [locals EXCEPT
                                         !.viewer_dir = viewer_dir,
                                         !.video_info = video_info,
                                         !.server = end.server]
                       /\ result' = end.code
    /\ pc' = "returned"
    /\ UNCHANGED <<settings, pipeline_vars, disk, downloader>>

MainNext ==
    \/ LocalVideo
    \/ DownloadVideo
    \/ Welcome
    \/ AskUrl
    \/ CheckVideo
    \/ ExtractFrames
    \/ AnalyzeVideo
    \/ GenerateViewer
    \/ AfterTry

MainSpec == MainInit /\ [][MainNext]_vars

(***************************************************************************)
(* The stages called directly on a Sequence (StageSpec).  pc names the     *)
(* call that returned last; "build" while the Sequence is being put        *)
(* together.                                                               *)
(***************************************************************************)
StageInit ==
    /\ settings = DefaultSettings
    /\ detector = NewDetector
    /\ image_files = <<>>
    /\ pc = "build"
    /\ idx = 0
    /\ pose_frames = <<>>
    /\ detected_frames_count = 0
    /\ interpolated_poses = <<>>
    /\ smoothed_poses = <<>>
    /\ stick_figure_data = <<>>
    /\ overall_scores = <<>>
    /\ result = <<>>
    /\ CliIdle

\* The caller appends one more frame to the Sequence.
AddFrame ==
    /\ pc = "build"
    /\ Len(pose_frames) < MaxFrames
    /\ \E f \in StageFrames :
          pose_frames' = Append(pose_frames,
              [f EXCEPT !.frame_idx = Len(pose_frames),
                        !.timestamp = Timestamp(Len(pose_frames))])
    /\ UNCHANGED cli_vars
    /\ UNCHANGED <<settings, detector, image_files, pc, idx,
                   detected_frames_count, interpolated_poses, smoothed_poses,
                   stick_figure_data, overall_scores, result>>

\* Faulty variant: the interpolated frames are written into the caller's
\* list.
CallInterpolate_inplace ==
    /\ pc = "build"
    /\ \E F \in 1..MaxFactor :
          /\ detector' = [detector EXCEPT !.interpolation_factor = F]
          /\ interpolated_poses' = interpolate_poses(pose_frames, F)
          /\ pose_frames' = interpolated_poses'
          /\ pc' = "interpolate_poses"
    /\ UNCHANGED cli_vars
    /\ UNCHANGED <<settings, image_files, idx, detected_frames_count,
                   smoothed_poses, stick_figure_data, overall_scores, result>>

\* detector.interpolation_factor = F; detector.interpolate_poses(poses)
CallInterpolate ==
    /\ pc = "build"
    /\ \E F \in 1..MaxFactor :
          /\ detector' = [detector EXCEPT !.interpolation_factor = F]
          /\ IF interpolate_poses_raises(pose_frames, F)
             THEN /\ result' = Raised("interpolate_poses")
                  /\ pc' = "raised"
                  /\ UNCHANGED interpolated_poses
             ELSE /\ interpolated_poses' = interpolate_poses(pose_frames, F)
                  /\ pc' = "interpolate_poses"
                  /\ UNCHANGED result
    /\ UNCHANGED cli_vars
    /\ UNCHANGED <<settings, image_files, idx, pose_frames,
                   detected_frames_count, smoothed_poses, stick_figure_data,
                   overall_scores>>

\* detector.smoothing_window = W; detector.smooth_poses(poses)
CallSmooth ==
    /\ pc = "build"
    /\ \E W \in 0..MaxWindow :
          /\ detector' = [detector EXCEPT !.smoothing_window = W]
          /\ IF smooth_poses_raises(pose_frames, W)
             THEN /\ result' = Raised("smooth_poses")
                  /\ pc' = "raised"
                  /\ UNCHANGED smoothed_poses
             ELSE /\ smoothed_poses' = smooth_poses(pose_frames, W)
                  /\ pc' = "smooth_poses"
                  /\ UNCHANGED result
    /\ UNCHANGED cli_vars
    /\ UNCHANGED <<settings, image_files, idx, pose_frames,
                   detected_frames_count, interpolated_poses,
                   stick_figure_data, overall_scores>>

\* analyzer._generate_stick_figure_data(poses)
CallStickFigure ==
    /\ pc = "build"
    /\ IF _generate_stick_figure_data_raises(pose_frames)
       THEN /\ result' = Raised("_generate_stick_figure_data")
            /\ pc' = "raised"
            /\ UNCHANGED stick_figure_data
       ELSE /\ stick_figure_data' = _generate_stick_figure_data(pose_frames)
            /\ pc' = "_generate_stick_figure_data"
            /\ UNCHANGED result
    /\ UNCHANGED cli_vars
    /\ UNCHANGED <<settings, detector, image_files, idx, pose_frames,
                   detected_frames_count, interpolated_poses, smoothed_poses,
                   overall_scores>>

\* analyzer._calculate_enhanced_scores(poses)
CallScores ==
    /\ pc = "build"
    /\ IF _calculate_enhanced_scores_raises(pose_frames)
       THEN /\ result' = Raised("_calculate_enhanced_scores")
            /\ pc' = "raised"
            /\ UNCHANGED overall_scores
       ELSE /\ overall_scores' = _calculate_enhanced_scores(pose_frames)
            /\ pc' = "_calculate_enhanced_scores"
            /\ UNCHANGED result
    /\ UNCHANGED cli_vars
    /\ UNCHANGED <<settings, detector, image_files, idx, pose_frames,
                   detected_frames_count, interpolated_poses, smoothed_poses,
                   stick_figure_data>>

StageNext ==
    \/ AddFrame
    \/ CallInterpolate
    \/ CallSmooth
    \/ CallStickFigure
    \/ CallScores

StageSpec == StageInit /\ [][StageNext]_vars

(***************************************************************************)
(* PoseAnalyzer.analyze_video (Spec).  image_files[k] tells whether        *)
(* cv2.imread can read the k-th image file; pc is the statement the call   *)
(* has reached, idx the loop variable i.                                   *)
(***************************************************************************)
\* The settings an environment can hold.
SettingsChoices ==
    { Settings(m, 10, 5) : m \in MinFramesChoices }
    \cup { Settings(m, 2, 3) : m \in MinFramesChoices }

Init ==
    /\ settings \in SettingsChoices
    /\ detector = NewDetector
    /\ image_files \in UNION { [1..n -> BOOLEAN] : n \in 0..MaxImages }
    /\ pc \in {"start", "no_frames_dir"}
    /\ pc = "no_frames_dir" => image_files = <<>>
    /\ idx = 0
    /\ pose_frames = <<>>
    /\ detected_frames_count = 0
    /\ interpolated_poses = <<>>
    /\ smoothed_poses = <<>>
    /\ stick_figure_data = <<>>
    /\ overall_scores = <<>>
    /\ result = <<>>
    /\ CliIdle

\* raise PoseDetectionError(message)
PoseDetectionError(message) ==
    [exception |-> "PoseDetectionError", message |-> message]

\* f"Too few frames with detected poses ({detected}/{total}). Minimum
\* required: {minimum}. ...": the text and the three numbers it carries.
TooFewFrames(detected, total, minimum) ==
    [text |-> "Too few frames with detected poses",
     detected |-> detected, total |-> total, minimum |-> minimum]

\* if not frames_dir.is_dir(): raise
RaiseNoDirectory ==
    /\ pc = "no_frames_dir"
    /\ result' = PoseDetectionError([text |-> "Frames directory not found"])
    /\ pc' = "raised"
    /\ UNCHANGED cli_vars
    /\ UNCHANGED <<settings, detector, image_files, idx, pose_frames,
                   detected_frames_count, interpolated_poses, smoothed_poses,
                   stick_figure_data, overall_scores>>

\* if not image_files: raise; else enter the loop.
ListImages ==
    /\ pc = "start"
    /\ IF image_files = <<>>
       THEN /\ result' = PoseDetectionError(
                            [text |-> "No image files found in frames directory"])
            /\ pc' = "raised"
       ELSE /\ pc' = "detect"
            /\ UNCHANGED result
    /\ UNCHANGED cli_vars
    /\ UNCHANGED <<settings, detector, image_files, idx, pose_frames,
                   detected_frames_count, interpolated_poses, smoothed_poses,
                   stick_figure_data, overall_scores>>

\* Faulty variant: every frame read counts as detected.
DetectFrame_all ==
    /\ pc = "detect"
    /\ idx < Len(image_files)
    /\ IF ~At(image_files, idx)
       THEN UNCHANGED <<pose_frames, detected_frames_count>>
       ELSE \E body \in ModelOutputs, draw \in {0, 1} :
               /\ detected_frames_count' = detected_frames_count + 1
               /\ pose_frames' =
                      Append(pose_frames,
                             detect_pose_frame(body, draw, idx, Timestamp(idx)))
    /\ idx' = idx + 1
    /\ UNCHANGED cli_vars
    /\ UNCHANGED <<settings, detector, image_files, pc, interpolated_poses,
                   smoothed_poses, stick_figure_data, overall_scores, result>>

\* One pass of "for i, img_file in enumerate(image_files)".
DetectFrame ==
    /\ pc = "detect"
    /\ idx < Len(image_files)
    /\ IF ~At(image_files, idx)
       THEN UNCHANGED <<pose_frames, detected_frames_count>>
       ELSE \E body \in ModelOutputs, draw \in {0, 1} :
               LET pose_frame ==
                       detect_pose_frame(body, draw, idx, Timestamp(idx))
               IN  /\ detected_frames_count' =
                          IF pose_frame.body_keypoints # <<>>
                          THEN detected_frames_count + 1
                          ELSE detected_frames_count
                   /\ pose_frames' = Append(pose_frames, pose_frame)
    /\ idx' = idx + 1
    /\ UNCHANGED cli_vars
    /\ UNCHANGED <<settings, detector, image_files, pc, interpolated_poses,
                   smoothed_poses, stick_figure_data, overall_scores, result>>

\* Faulty variant: detected_frames_count <= settings.analysis_min_frames.
GateFails_inclusive(detected, minimum) == detected <= minimum

\* if detected_frames_count < settings.analysis_min_frames
GateFails(detected, minimum) == detected < minimum

\* Faulty variant: the total cited is the number of frames read.
GateError_read ==
    PoseDetectionError(TooFewFrames(detected_frames_count, Len(pose_frames),
                                    settings.analysis_min_frames))

\* The error the gate raises.
GateError ==
    PoseDetectionError(TooFewFrames(detected_frames_count, Len(image_files),
                                    settings.analysis_min_frames))

\* The loop is over: the detection gate.
Gate ==
    /\ pc = "detect"
    /\ idx = Len(image_files)
    /\ IF GateFails(detected_frames_count, settings.analysis_min_frames)
       THEN /\ result' = GateError
            /\ pc' = "raised"
       ELSE /\ pc' = "interpolate"
            /\ UNCHANGED result
    /\ UNCHANGED cli_vars
    /\ UNCHANGED <<settings, detector, image_files, idx, pose_frames,
                   detected_frames_count, interpolated_poses, smoothed_poses,
                   stick_figure_data, overall_scores>>

\* interpolated_poses = self.detector.interpolate_poses(pose_frames)
Interpolate ==
    /\ pc = "interpolate"
    /\ IF interpolate_poses_raises(pose_frames,
                                   detector.interpolation_factor)
       THEN /\ result' = Raised("interpolate_poses")
            /\ pc' = "raised"
            /\ UNCHANGED interpolated_poses
       ELSE /\ interpolated_poses' =
                   interpolate_poses(pose_frames,
                                     detector.interpolation_factor)
            /\ pc' = "smooth"
            /\ UNCHANGED result
    /\ UNCHANGED cli_vars
    /\ UNCHANGED <<settings, detector, image_files, idx, pose_frames,
                   detected_frames_count, smoothed_poses, stick_figure_data,
                   overall_scores>>

\* smoothed_poses = self.detector.smooth_poses(interpolated_poses)
Smooth ==
    /\ pc = "smooth"
    /\ IF smooth_poses_raises(interpolated_poses, detector.smoothing_window)
       THEN /\ result' = Raised("smooth_poses")
            /\ pc' = "raised"
            /\ UNCHANGED smoothed_poses
       ELSE /\ smoothed_poses' =
                   smooth_poses(interpolated_poses,
                                detector.smoothing_window)
            /\ pc' = "stick_figure"
            /\ UNCHANGED result
    /\ UNCHANGED cli_vars
    /\ UNCHANGED <<settings, detector, image_files, idx, pose_frames,
                   detected_frames_count, interpolated_poses,
                   stick_figure_data, overall_scores>>

\* stick_figure_data = self._generate_stick_figure_data(smoothed_poses)
StickFigure ==
    /\ pc = "stick_figure"
    /\ IF _generate_stick_figure_data_raises(smoothed_poses)
       THEN /\ result' = Raised("_generate_stick_figure_data")
            /\ pc' = "raised"
            /\ UNCHANGED stick_figure_data
       ELSE /\ stick_figure_data' =
                   _generate_stick_figure_data(smoothed_poses)
            /\ pc' = "scores"
            /\ UNCHANGED result
    /\ UNCHANGED cli_vars
    /\ UNCHANGED <<settings, detector, image_files, idx, pose_frames,
                   detected_frames_count, interpolated_poses, smoothed_poses,
                   overall_scores>>

\* Faulty variant: the scores are computed from the frames as detected.
Scores_raw ==
    /\ pc = "scores"
    /\ overall_scores' = _calculate_enhanced_scores(pose_frames)
    /\ pc' = "assemble"
    /\ UNCHANGED cli_vars
    /\ UNCHANGED <<settings, detector, image_files, idx, pose_frames,
                   detected_frames_count, interpolated_poses, smoothed_poses,
                   stick_figure_data, result>>

\* overall_scores = self._calculate_enhanced_scores(smoothed_poses)
Scores ==
    /\ pc = "scores"
    /\ IF _calculate_enhanced_scores_raises(smoothed_poses)
       THEN /\ result' = Raised("_calculate_enhanced_scores")
            /\ pc' = "raised"
            /\ UNCHANGED overall_scores
       ELSE /\ overall_scores' = _calculate_enhanced_scores(smoothed_poses)
            /\ pc' = "assemble"
            /\ UNCHANGED result
    /\ UNCHANGED cli_vars
    /\ UNCHANGED <<settings, detector, image_files, idx, pose_frames,
                   detected_frames_count, interpolated_poses, smoothed_poses,
                   stick_figure_data>>

\* PoseAnalyzer._pose_frame_to_dict
KeypointDicts(keypoints) ==
    [k \in 1..Len(keypoints) |->
        [x |-> keypoints[k].x, y |-> keypoints[k].y,
         confidence |-> keypoints[k].confidence, z |-> keypoints[k].z]]

_pose_frame_to_dict(pose_frame) ==
    [timestamp |-> pose_frame.timestamp,
     frame_idx |-> pose_frame.frame_idx,
     body_keypoints |-> KeypointDicts(pose_frame.body_keypoints),
     hand_keypoints_left |-> KeypointDicts(pose_frame.hand_keypoints_left),
     hand_keypoints_right |-> KeypointDicts(pose_frame.hand_keypoints_right),
     face_keypoints |-> KeypointDicts(pose_frame.face_keypoints)]

\* The dictionary analyze_video returns.
Payload ==
    [pose_frames |-> [k \in 1..Len(smoothed_poses) |->
                         _pose_frame_to_dict(smoothed_poses[k])],
     stick_figure_data |-> stick_figure_data,
     overall_scores |-> overall_scores,
     detection_rate |-> Fix(detected_frames_count, Len(image_files)),
     frame_count |-> Len(image_files),
     interpolated_frame_count |-> Len(smoothed_poses),
     detected_frames_count |-> detected_frames_count,
     temporal_granularity |-> 10,
     features |-> [full_body_detection |-> TRUE, hand_detection |-> TRUE,
                   face_detection |-> TRUE, motion_interpolation |-> TRUE,
                   temporal_smoothing |-> TRUE]]

\* detection_rate = ...; return {...}
Return ==
    /\ pc = "assemble"
    /\ result' = Payload
    /\ pc' = "returned"
    /\ UNCHANGED cli_vars
    /\ UNCHANGED <<settings, detector, image_files, idx, pose_frames,
                   detected_frames_count, interpolated_poses, smoothed_poses,
                   stick_figure_data, overall_scores>>

Next ==
    \/ RaiseNoDirectory
    \/ ListImages
    \/ DetectFrame
    \/ Gate
    \/ Interpolate
    \/ Smooth
    \/ StickFigure
    \/ Scores
    \/ Return

Spec == Init /\ [][Next]_vars

(***************************************************************************)
(* Properties of the stages (checked under StageSpec).                     *)
(***************************************************************************)
Factor == detector.interpolation_factor
Window == detector.smoothing_window
Interpolated == pc = "interpolate_poses"
Smoothed == pc = "smooth_poses"
Drawn == pc = "_generate_stick_figure_data"
Scored == pc = "_calculate_enhanced_scores"

\* C1: for a Sequence of n >= 2 frames and a factor F >= 1 interpolate_poses
\* returns exactly (n-1)*F+1 frames, and the frame at position k*F is the
\* original frame k, for every k in 0..n-1.
C1_InterpolatedLength ==
    (Interpolated /\ Len(pose_frames) >= 2) =>
        /\ Len(interpolated_poses) = (Len(pose_frames) - 1) * Factor + 1
        /\ \A k \in 0..(Len(pose_frames) - 1) :
              /\ k * Factor < Len(interpolated_poses)
              /\ At(interpolated_poses, k * Factor) = At(pose_frames, k)

C1_Witness ==
    /\ Interpolated
    /\ Len(pose_frames) = 3
    /\ Factor = 3
    /\ Len(interpolated_poses) = 7
    /\ At(pose_frames, 0) # At(pose_frames, 1)
    /\ At(pose_frames, 1) # At(pose_frames, 2)

\* C3: every score the Score Engine returns lies in [0, 100], for every
\* Sequence (empty, one frame, short or empty lists, zero confidences).
C3_ScoresInRange ==
    Scored =>
        \A key \in DOMAIN overall_scores :
            /\ overall_scores[key] >= 0
            /\ overall_scores[key] <= Fix(100, 1)

\* The clamps act: energy is cut to 100 and a frame's balance to 0.
C3_Witness ==
    /\ Scored
    /\ Len(pose_frames) = 3
    /\ overall_scores.energy = Fix(100, 1)
    /\ overall_scores.smoothness = 0
    /\ \E k \in 1..3 : /\ BalanceQualifies(pose_frames[k])
                       /\ FrameBalance(pose_frames[k]) = 0

\* C4 (as claimed): for an empty Sequence all six scores are present and 0.
C4_EmptyScoresAllSix ==
    (Scored /\ pose_frames = <<>>) =>
        /\ DOMAIN overall_scores =
              {"flow", "balance", "smoothness", "energy", "hand_activity",
               "posture_stability"}
        /\ \A key \in DOMAIN overall_scores : overall_scores[key] = 0

\* C5: every segment the builder emits, for the body and for either hand of
\* every frame, comes from a topology edge (a,b) with both a and b inside
\* the keypoint list and both confidences strictly above 0.3.
JustifiedEdges(keypoints, table) ==
    {k \in 1..Len(table) :
        /\ table[k][1] < Len(keypoints)
        /\ table[k][2] < Len(keypoints)
        /\ keypoints[table[k][1] + 1].confidence > Threshold
        /\ keypoints[table[k][2] + 1].confidence > Threshold}

JustifiedSegments(keypoints, table) ==
    {LET kp_a == keypoints[table[k][1] + 1]
         kp_b == keypoints[table[k][2] + 1]
     IN  [from |-> [x |-> kp_a.x, y |-> kp_a.y],
          to |-> [x |-> kp_b.x, y |-> kp_b.y],
          confidence |-> IF kp_a.confidence <= kp_b.confidence
                         THEN kp_a.confidence ELSE kp_b.confidence] :
     k \in JustifiedEdges(keypoints, table)}

AllJustified(segments, keypoints, table) ==
    LET justified == JustifiedSegments(keypoints, table)
    IN  \A k \in 1..Len(segments) : segments[k] \in justified

C5_SegmentsJustified ==
    Drawn =>
        /\ Len(stick_figure_data.frames) = Len(pose_frames)
        /\ \A k \in 1..Len(pose_frames) :
              LET frame_data == stick_figure_data.frames[k]
                  pose == pose_frames[k]
              IN  /\ AllJustified(frame_data.body_connections,
                                  pose.body_keypoints, BODY_CONNECTIONS)
                  /\ AllJustified(frame_data.hand_connections_left,
                                  pose.hand_keypoints_left, HAND_CONNECTIONS)
                  /\ AllJustified(frame_data.hand_connections_right,
                                  pose.hand_keypoints_right, HAND_CONNECTIONS)

\* Some edges of one frame are drawn and others are held back, by a low
\* confidence in one frame and by a short list in another.
C5_Witness ==
    /\ Drawn
    /\ \E k \in 1..Len(pose_frames) :
          /\ Len(pose_frames[k].body_keypoints) = 17
          /\ Len(stick_figure_data.frames[k].body_connections) \in 1..15
    /\ \E k \in 1..Len(pose_frames) :
          /\ Len(pose_frames[k].hand_keypoints_left) \in 1..20
          /\ Len(stick_figure_data.frames[k].hand_connections_left) \in 1..19

\* C6: smooth_poses returns exactly n frames for every Sequence length n
\* (0 and n < W included) and every window size W >= 0.
C6_SmoothedLength ==
    Smoothed => Len(smoothed_poses) = Len(pose_frames)

C6_Witness ==
    /\ Smoothed
    /\ Window = 3
    /\ Len(pose_frames) = 3
    /\ Len(smoothed_poses) = 3

\* C7: with factor 1 interpolate_poses returns the input Sequence, frame by
\* frame and in the same order.
C7_FactorOneIdentity ==
    (Interpolated /\ Factor = 1) => interpolated_poses = pose_frames

C7_Witness ==
    /\ Interpolated
    /\ Factor = 1
    /\ Len(pose_frames) = 3
    /\ interpolated_poses = pose_frames

\* C8: in every inserted frame (step j in 1..F-1 between frames i and i+1)
\* each keypoint of the body, left-hand, right-hand and face list has the
\* confidence min(c1, c2) of its two source keypoints, whatever j.
ConfidencesAreMin(list, list1, list2) ==
    \A k \in 1..Len(list) :
        /\ k <= Len(list1)
        /\ k <= Len(list2)
        /\ list[k].confidence =
              IF list1[k].confidence <= list2[k].confidence
              THEN list1[k].confidence ELSE list2[k].confidence

C8_InterpolatedConfidence ==
    (Interpolated /\ Len(pose_frames) >= 2) =>
        \A i \in 0..(Len(pose_frames) - 2) : \A j \in 1..(Factor - 1) :
            LET inserted == At(interpolated_poses, i * Factor + j)
                pose1 == At(pose_frames, i)
                pose2 == At(pose_frames, i + 1)
            IN  /\ ConfidencesAreMin(inserted.body_keypoints,
                       pose1.body_keypoints, pose2.body_keypoints)
                /\ ConfidencesAreMin(inserted.hand_keypoints_left,
                       pose1.hand_keypoints_left, pose2.hand_keypoints_left)
                /\ ConfidencesAreMin(inserted.hand_keypoints_right,
                       pose1.hand_keypoints_right, pose2.hand_keypoints_right)
                /\ ConfidencesAreMin(inserted.face_keypoints,
                       pose1.face_keypoints, pose2.face_keypoints)

\* Two steps are inserted between frames whose confidences differ, the
\* smaller one now in the first frame and now in the second.
C8_Witness ==
    /\ Interpolated
    /\ Factor = 3
    /\ Len(pose_frames) = 3
    /\ \A i \in 1..2 :
          /\ Len(interpolated_poses[3 * i].body_keypoints) = 17
          /\ Len(interpolated_poses[3 * i].hand_keypoints_right) = 21
          /\ Len(interpolated_poses[3 * i].face_keypoints) = 5
    /\ pose_frames[1].body_keypoints[2].confidence
          < pose_frames[2].body_keypoints[2].confidence
    /\ pose_frames[2].body_keypoints[2].confidence
          > pose_frames[3].body_keypoints[2].confidence
    /\ pose_frames[1].hand_keypoints_right[1].confidence
          < pose_frames[2].hand_keypoints_right[1].confidence

\* C9: for a Sequence of at least 3 frames whose body keypoints all exist,
\* keep the same coordinates in every frame and have confidence above 0.3,
\* the smoothness score is 100 and the energy score is 0.
StandsStill ==
    /\ pose_frames[1].body_keypoints # <<>>
    /\ \A i \in 1..Len(pose_frames) :
          LET body == pose_frames[i].body_keypoints
              first == pose_frames[1].body_keypoints
          IN  /\ Len(body) = Len(first)
              /\ \A k \in 1..Len(body) :
                    /\ body[k].x = first[k].x
                    /\ body[k].y = first[k].y
                    /\ body[k].confidence > Threshold

C9_StillSequence ==
    (Scored /\ Len(pose_frames) >= 3 /\ StandsStill) =>
        /\ overall_scores.smoothness = Fix(100, 1)
        /\ overall_scores.energy = 0

C9_Witness ==
    /\ Scored
    /\ Len(pose_frames) = 3
    /\ StandsStill
    /\ Len(pose_frames[1].body_keypoints) = 17
    /\ overall_scores.smoothness = Fix(100, 1)
    /\ overall_scores.energy = 0

\* C10: the balance score is the mean, over the frames in which body
\* keypoints 11, 12, 15 and 16 all exist with confidence above 0.3, of
\* clamp(100 - 0.5*|COM - BOS|, 0, 100), COM the hip midpoint and BOS the
\* ankle midpoint; it is 0 when no frame qualifies, and a frame whose COM
\* and BOS coincide contributes exactly 100.
HasJoints(pose, joints) ==
    \A j \in joints :
        /\ j < Len(pose.body_keypoints)
        /\ At(pose.body_keypoints, j).confidence > Threshold

Midpoint(kp1, kp2) == <<(kp1.x + kp2.x) \div 2, (kp1.y + kp2.y) \div 2>>
COM(pose) == Midpoint(At(pose.body_keypoints, 11), At(pose.body_keypoints, 12))
BOS(pose) == Midpoint(At(pose.body_keypoints, 15), At(pose.body_keypoints, 16))

Clamp(v, lo, hi) == IF v < lo THEN lo ELSE IF v > hi THEN hi ELSE v

ClaimedFrameBalance(pose) ==
    Clamp(Fix(100, 1)
          - Magnitude(COM(pose)[1] - BOS(pose)[1], COM(pose)[2] - BOS(pose)[2])
            \div 2,
          0, Fix(100, 1))

BalanceFrames == {i \in 1..Len(pose_frames) :
                     HasJoints(pose_frames[i], {11, 12, 15, 16})}

ClaimedBalance ==
    IF BalanceFrames = {} THEN 0
    ELSE SumSeq([i \in 1..Len(pose_frames) |->
                    IF i \in BalanceFrames
                    THEN ClaimedFrameBalance(pose_frames[i]) ELSE 0])
         \div Cardinality(BalanceFrames)

C10_BalanceScore ==
    Scored =>
        /\ overall_scores.balance = ClaimedBalance
        /\ \A i \in BalanceFrames :
              COM(pose_frames[i]) = BOS(pose_frames[i]) =>
                  FrameBalance(pose_frames[i]) = Fix(100, 1)
        /\ (Len(pose_frames) = 1 /\ BalanceFrames = {1}
                /\ COM(pose_frames[1]) = BOS(pose_frames[1])) =>
               overall_scores.balance = Fix(100, 1)

\* A frame with COM = BOS, a frame off balance and a frame that does not
\* qualify, scored together.
C10_Witness ==
    /\ Scored
    /\ Len(pose_frames) = 3
    /\ Cardinality(BalanceFrames) = 2
    /\ \E i \in BalanceFrames : COM(pose_frames[i]) = BOS(pose_frames[i])
    /\ \E i \in BalanceFrames :
          FrameBalance(pose_frames[i]) \in (Fix(70, 1))..(Fix(90, 1))
    /\ \E i \in 1..3 : /\ i \notin BalanceFrames
                       /\ Len(pose_frames[i].body_keypoints) = 16
    /\ overall_scores.balance \in (Fix(85, 1))..(Fix(95, 1))

\* The body keypoint indices above 0.3 in both frames i and i+1 (1-based).
PairIndices(i) ==
    LET prev == pose_frames[i].body_keypoints
        curr == pose_frames[i + 1].body_keypoints
    IN  {j \in 1..Len(prev) :
            /\ j <= Len(curr)
            /\ prev[j].confidence > Threshold
            /\ curr[j].confidence > Threshold}

\* The mean displacement magnitude of pair (i, i+1) over PairIndices(i);
\* 0 for a pair that has no such index.
PairMeanDisplacement(i) ==
    LET prev == pose_frames[i].body_keypoints
        curr == pose_frames[i + 1].body_keypoints
        n == Min(Len(prev), Len(curr))
    IN  IF PairIndices(i) = {} THEN 0
        ELSE SumSeq([j \in 1..n |->
                        IF j \in PairIndices(i)
                        THEN Magnitude(curr[j].x - prev[j].x,
                                       curr[j].y - prev[j].y)
                        ELSE 0])
             \div Cardinality(PairIndices(i))

TotalPairMeans ==
    SumSeq([i \in 1..(Len(pose_frames) - 1) |-> PairMeanDisplacement(i)])

CountedPairs == {i \in 1..(Len(pose_frames) - 1) : PairIndices(i) # {}}

\* C11 (as claimed): for a Sequence of at least 2 frames the energy score is
\* clamp(2.0 * A, 0, 100), A the average over ALL consecutive frame pairs of
\* the pair's mean displacement over the indices above 0.3 in both frames.
C11_EnergyOverAllPairs ==
    (Scored /\ Len(pose_frames) >= 2) =>
        overall_scores.energy =
            Clamp(2 * (TotalPairMeans \div (Len(pose_frames) - 1)),
                  0, Fix(100, 1))

\* C11 (amended): the average A is taken over the consecutive frame pairs
\* that have at least one index above 0.3 in both frames, and the energy
\* score is 0 when no pair has one.
C11_EnergyOverCountedPairs ==
    (Scored /\ Len(pose_frames) >= 2) =>
        overall_scores.energy =
            IF CountedPairs = {} THEN 0
            ELSE Clamp(2 * (TotalPairMeans \div Cardinality(CountedPairs)),
                       0, Fix(100, 1))

\* One pair moves by less than 50 pixels on average, the other pair has no
\* index above 0.3 in both frames.
C11_Witness ==
    /\ Scored
    /\ Len(pose_frames) = 3
    /\ Cardinality(CountedPairs) = 1
    /\ PairMeanDisplacement(1) \in 1..(Fix(50, 1) - 1)
    /\ overall_scores.energy = 2 * PairMeanDisplacement(1)

\* The Sequence with every left-hand, right-hand and face list emptied: all
\* Sequences that differ only in those lists have the same one.
WithoutHandsAndFace(poses) ==
    [k \in 1..Len(poses) |->
        [poses[k] EXCEPT !.hand_keypoints_left = <<>>,
                         !.hand_keypoints_right = <<>>,
                         !.face_keypoints = <<>>]]

BodyScores == {"flow", "balance", "smoothness", "energy"}

\* C12: the flow score is clamp((smoothness + balance + energy) / 3, 0, 100),
\* and flow, balance, smoothness and energy are the scores of the Sequence
\* with its hand and face lists emptied, so two Sequences that differ only
\* in those lists get the same four scores.
C12_FlowFromBodyOnly ==
    Scored =>
        /\ overall_scores.flow =
               Clamp((overall_scores.smoothness + overall_scores.balance
                      + overall_scores.energy) \div 3, 0, Fix(100, 1))
        /\ LET bare == _calculate_enhanced_scores(
                            WithoutHandsAndFace(pose_frames))
           IN  \A key \in BodyScores : overall_scores[key] = bare[key]

\* The hands move and the flow is neither 0 nor 100; emptying the hand
\* lists changes the hand activity but none of the four scores.
C12_Witness ==
    /\ Scored
    /\ Len(pose_frames) = 3
    /\ overall_scores.hand_activity > 0
    /\ overall_scores.flow \in 1..(Fix(100, 1) - 1)
    /\ overall_scores.flow # overall_scores.hand_activity
    /\ _calculate_enhanced_scores(
           WithoutHandsAndFace(pose_frames)).hand_activity = 0

\* p1 + alpha*(p2 - p1) for alpha = j/F.
ClaimedLerp(p1, p2, j, F) == p1 + (j * (p2 - p1)) \div F

CoordinatesAreLerp(list, list1, list2, j, F) ==
    \A k \in 1..Len(list) :
        /\ k <= Len(list1)
        /\ k <= Len(list2)
        /\ \A c \in {"x", "y", "z"} :
              list[k][c] = ClaimedLerp(list1[k][c], list2[k][c], j, F)

\* C13 (as claimed): in every frame inserted between frames i and i+1 at
\* step j in 1..F-1, the x, the y and the z of every keypoint of the body,
\* left-hand, right-hand and face list equal p1 + (j/F)*(p2 - p1), p1 and
\* p2 the same coordinate of the keypoint at the same index in the two
\* source frames.
C13_InterpolatedCoordinates ==
    (Interpolated /\ Len(pose_frames) >= 2) =>
        \A i \in 0..(Len(pose_frames) - 2) : \A j \in 1..(Factor - 1) :
            LET inserted == At(interpolated_poses, i * Factor + j)
                pose1 == At(pose_frames, i)
                pose2 == At(pose_frames, i + 1)
            IN  /\ CoordinatesAreLerp(inserted.body_keypoints,
                       pose1.body_keypoints, pose2.body_keypoints, j, Factor)
                /\ CoordinatesAreLerp(inserted.hand_keypoints_left,
                       pose1.hand_keypoints_left, pose2.hand_keypoints_left,
                       j, Factor)
                /\ CoordinatesAreLerp(inserted.hand_keypoints_right,
                       pose1.hand_keypoints_right, pose2.hand_keypoints_right,
                       j, Factor)
                /\ CoordinatesAreLerp(inserted.face_keypoints,
                       pose1.face_keypoints, pose2.face_keypoints, j, Factor)

\* The four keypoint lists of a frame.
KeypointLists ==
    {"body_keypoints", "hand_keypoints_left", "hand_keypoints_right",
     "face_keypoints"}

\* C14: in every inserted frame each of the four keypoint lists has length
\* min(len1, len2) of the same list in the two source frames, so an index
\* missing from either source frame gets no keypoint.
C14_InterpolatedListLengths ==
    (Interpolated /\ Len(pose_frames) >= 2) =>
        \A i \in 0..(Len(pose_frames) - 2) : \A j \in 1..(Factor - 1) :
            \A list \in KeypointLists :
                LET len1 == Len(At(pose_frames, i)[list])
                    len2 == Len(At(pose_frames, i + 1)[list])
                IN  Len(At(interpolated_poses, i * Factor + j)[list]) =
                        IF len1 <= len2 THEN len1 ELSE len2

\* Between a detector frame and a frame with shorter lists, in both orders:
\* 17 and 16 body keypoints, 21 and 5 left-hand, 5 and 3 face keypoints.
C14_Witness ==
    /\ Interpolated
    /\ Factor >= 2
    /\ Len(pose_frames) = 3
    /\ Len(pose_frames[1].body_keypoints) = 17
    /\ Len(pose_frames[2].body_keypoints) = 16
    /\ Len(pose_frames[3].body_keypoints) = 17
    /\ Len(pose_frames[1].hand_keypoints_left) = 21
    /\ Len(pose_frames[2].hand_keypoints_left) = 5
    /\ Len(pose_frames[3].hand_keypoints_left) = 21
    /\ \A k \in {1, Factor + 1} :
          /\ Len(At(interpolated_poses, k).body_keypoints) = 16
          /\ Len(At(interpolated_poses, k).hand_keypoints_left) = 5
          /\ Len(At(interpolated_poses, k).face_keypoints) = 3

\* The integer n/d truncated towards zero (d > 0).
Truncated(n, d) == IF n >= 0 THEN n \div d ELSE -((-n) \div d)

\* C15: the frame inserted at step j between original frames (t1, f1) and
\* (t2, f2) has timestamp t1 + (j/F)*(t2 - t1) and frame_idx equal to
\* f1 + (j/F)*(f2 - f1) truncated to an integer.
C15_InterpolatedTimeAndIndex ==
    (Interpolated /\ Len(pose_frames) >= 2) =>
        \A i \in 0..(Len(pose_frames) - 2) : \A j \in 1..(Factor - 1) :
            LET inserted == At(interpolated_poses, i * Factor + j)
                pose1 == At(pose_frames, i)
                pose2 == At(pose_frames, i + 1)
            IN  /\ inserted.timestamp =
                       ClaimedLerp(pose1.timestamp, pose2.timestamp, j, Factor)
                /\ inserted.frame_idx =
                       Truncated(pose1.frame_idx * Factor
                                 + j * (pose2.frame_idx - pose1.frame_idx),
                                 Factor)

\* Factor 3 over three frames: the steps at 1/3 and 2/3 keep the frame
\* index of the frame before them, 2/3 being cut down rather than rounded.
C15_Witness ==
    /\ Interpolated
    /\ Factor = 3
    /\ Len(pose_frames) = 3
    /\ At(interpolated_poses, 1).timestamp = Fix(1, 3)
    /\ At(interpolated_poses, 2).timestamp = Fix(2, 3)
    /\ At(interpolated_poses, 2).frame_idx = 0
    /\ At(interpolated_poses, 5).timestamp = Fix(5, 3)
    /\ At(interpolated_poses, 5).frame_idx = 1

\* C16: for a Sequence of length 0 or 1 interpolate_poses returns the
\* Sequence unchanged, whatever the upscale factor.
C16_ShortSequenceUnchanged ==
    (Interpolated /\ Len(pose_frames) < 2) =>
        interpolated_poses = pose_frames

\* One frame with keypoints, upscaled by the largest factor.
C16_Witness ==
    /\ Interpolated
    /\ Factor = MaxFactor
    /\ Len(pose_frames) = 1
    /\ Len(pose_frames[1].body_keypoints) = 17
    /\ Len(interpolated_poses) = 1

\* The window [max(0, i - W/2), min(n, i + W/2 + 1)) around index i.
WindowStart(i) == IF i - Window \div 2 > 0 THEN i - Window \div 2 ELSE 0
WindowEnd(i) ==
    IF i + Window \div 2 + 1 < Len(pose_frames)
    THEN i + Window \div 2 + 1 ELSE Len(pose_frames)

\* C17: for every window size W >= 0 and every index i of a Sequence with
\* n >= W frames, index i lies in its window and the frame smooth_poses
\* produces for i is the frame at offset i - start of that window, which is
\* input frame i; with the pass-through for n < W the output equals the
\* input, element by element and in the same order.
C17_SmoothedIsInput ==
    Smoothed =>
        /\ smoothed_poses = pose_frames
        /\ Len(pose_frames) >= Window =>
              \A i \in 0..(Len(pose_frames) - 1) :
                  /\ WindowStart(i) <= i
                  /\ i < WindowEnd(i)
                  /\ LET window == SubSeq(pose_frames, WindowStart(i) + 1,
                                           WindowEnd(i))
                         centre == At(window, i - WindowStart(i))
                     IN  /\ At(smoothed_poses, i) = centre
                         /\ centre = At(pose_frames, i)

\* A window of 3 over three different frames: cut at the start for i = 0,
\* cut at the end for i = 2, whole for i = 1.
C17_Witness ==
    /\ Smoothed
    /\ Window = 3
    /\ Len(pose_frames) = 3
    /\ WindowStart(0) = 0 /\ WindowEnd(0) = 2
    /\ WindowStart(1) = 0 /\ WindowEnd(1) = 3
    /\ WindowStart(2) = 1 /\ WindowEnd(2) = 3
    /\ pose_frames[1].body_keypoints # pose_frames[2].body_keypoints
    /\ pose_frames[2].body_keypoints # pose_frames[3].body_keypoints
    /\ smoothed_poses = pose_frames

\* The segment the claim assigns to edge number k of the table.
EdgeSegment(keypoints, table, k) ==
    LET kp_a == keypoints[table[k][1] + 1]
        kp_b == keypoints[table[k][2] + 1]
    IN  [from |-> [x |-> kp_a.x, y |-> kp_a.y],
         to |-> [x |-> kp_b.x, y |-> kp_b.y],
         confidence |-> IF kp_a.confidence <= kp_b.confidence
                        THEN kp_a.confidence ELSE kp_b.confidence]

\* The list holds one segment per qualifying edge and nothing else: every
\* segment value occurs in it as often as qualifying edges give that value.
OnePerEdge(segments, keypoints, table) ==
    LET edges == JustifiedEdges(keypoints, table)
        values == {segments[k] : k \in 1..Len(segments)}
                  \cup {EdgeSegment(keypoints, table, e) : e \in edges}
    IN  /\ Len(segments) = Cardinality(edges)
        /\ \A v \in values :
              Cardinality({k \in 1..Len(segments) : segments[k] = v}) =
              Cardinality({e \in edges : EdgeSegment(keypoints, table, e) = v})

\* C18: for every frame and every edge (a,b) of the body, left-hand or
\* right-hand table whose endpoints are valid indices with confidence above
\* 0.3 the builder emits exactly one segment, from a's (x,y) to b's (x,y)
\* with confidence min(conf_a, conf_b), and nothing for any other edge; a
\* frame has at most 16 body segments and at most 20 per hand.
C18_OneSegmentPerEdge ==
    Drawn =>
        \A k \in 1..Len(pose_frames) :
            LET frame_data == stick_figure_data.frames[k]
                pose == pose_frames[k]
            IN  /\ OnePerEdge(frame_data.body_connections,
                              pose.body_keypoints, BODY_CONNECTIONS)
                /\ OnePerEdge(frame_data.hand_connections_left,
                              pose.hand_keypoints_left, HAND_CONNECTIONS)
                /\ OnePerEdge(frame_data.hand_connections_right,
                              pose.hand_keypoints_right, HAND_CONNECTIONS)
                /\ Len(frame_data.body_connections) <= 16
                /\ Len(frame_data.hand_connections_left) <= 20
                /\ Len(frame_data.hand_connections_right) <= 20

\* One frame is drawn in full (16 body segments, 20 for each hand), another
\* has edges held back, and a third has none to draw.
C18_Witness ==
    /\ Drawn
    /\ Len(pose_frames) = 3
    /\ \E k \in 1..3 :
          /\ Len(stick_figure_data.frames[k].body_connections) = 16
          /\ Len(stick_figure_data.frames[k].hand_connections_left) = 20
          /\ Len(stick_figure_data.frames[k].hand_connections_right) = 20
    /\ \E k \in 1..3 :
          /\ Len(pose_frames[k].body_keypoints) = 17
          /\ Len(stick_figure_data.frames[k].body_connections) \in 1..15
    /\ \E k \in 1..3 :
          /\ pose_frames[k].body_keypoints = <<>>
          /\ stick_figure_data.frames[k].body_connections = <<>>

\* clamp(100 - 0.5*|shoulderCenter.x - hipCenter.x|, 0, 100)
ClaimedFramePosture(pose) ==
    LET shoulder_x == (At(pose.body_keypoints, 5).x
                       + At(pose.body_keypoints, 6).x) \div 2
        hip_x == (At(pose.body_keypoints, 11).x
                  + At(pose.body_keypoints, 12).x) \div 2
        deviation == IF shoulder_x >= hip_x THEN shoulder_x - hip_x
                     ELSE hip_x - shoulder_x
    IN  Clamp(Fix(100, 1) - deviation \div 2, 0, Fix(100, 1))

\* The frames in which keypoints 0, 5, 6, 11 and 12 exist above 0.3.
PostureFrames(poses) ==
    {i \in 1..Len(poses) : HasJoints(poses[i], {0, 5, 6, 11, 12})}

ClaimedPosture(poses) ==
    IF PostureFrames(poses) = {} THEN 0
    ELSE SumSeq([i \in 1..Len(poses) |->
                    IF i \in PostureFrames(poses)
                    THEN ClaimedFramePosture(poses[i]) ELSE 0])
         \div Cardinality(PostureFrames(poses))

\* The Sequence with every body keypoint's y set to y.
WithBodyY(poses, y) ==
    [i \in 1..Len(poses) |->
        [poses[i] EXCEPT !.body_keypoints =
            [k \in 1..Len(poses[i].body_keypoints) |->
                [poses[i].body_keypoints[k] EXCEPT !.y = y]]]]

\* C19 (as claimed): the posture stability score of a non-empty Sequence is
\* the mean of clamp(100 - 0.5*|shoulderCenter.x - hipCenter.x|, 0, 100)
\* over the frames in which body keypoints 0, 5, 6, 11 and 12 all exist
\* with confidence above 0.3, 0 when there is no such frame, and the same
\* whatever the y coordinates are.
C19_PostureStability ==
    (Scored /\ pose_frames # <<>>) =>
        /\ overall_scores.posture_stability = ClaimedPosture(pose_frames)
        /\ _calculate_posture_stability(WithBodyY(pose_frames, 0)) =
               overall_scores.posture_stability

\* Body keypoint index j (1-based) is above 0.3 in frames i, i+1 and i+2.
SteadyIndex(i, j) ==
    \A f \in i..(i + 2) :
        /\ j <= Len(pose_frames[f].body_keypoints)
        /\ pose_frames[f].body_keypoints[j].confidence > Threshold

NoSteadyIndex ==
    \A i \in 1..(Len(pose_frames) - 2) :
        \A j \in 1..Len(pose_frames[i].body_keypoints) : ~SteadyIndex(i, j)

\* C20: the smoothness score is 0 for every Sequence of fewer than 2 frames
\* and whenever no body keypoint index is above 0.3 in three consecutive
\* frames, which is so in every Sequence of exactly 2 frames.
C20_SmoothnessZero ==
    /\ (Scored /\ (Len(pose_frames) < 2 \/ NoSteadyIndex)) =>
           overall_scores.smoothness = 0
    /\ (Scored /\ Len(pose_frames) = 2) => NoSteadyIndex

\* Three frames, the outer two with 17 keypoints above 0.3 and the middle
\* one without a body: the Sequence moves, yet has no acceleration sample.
C20_Witness ==
    /\ Scored
    /\ Len(pose_frames) = 3
    /\ NoSteadyIndex
    /\ Len(pose_frames[1].body_keypoints) = 17
    /\ pose_frames[2].body_keypoints = <<>>
    /\ Len(pose_frames[3].body_keypoints) = 17
    /\ pose_frames[1].body_keypoints[1].confidence > Threshold
    /\ pose_frames[3].body_keypoints[1].confidence > Threshold
    /\ overall_scores.smoothness = 0

\* A frame lacks all keypoints.
LacksAllKeypoints(pose) ==
    /\ pose.body_keypoints = <<>>
    /\ pose.hand_keypoints_left = <<>>
    /\ pose.hand_keypoints_right = <<>>
    /\ pose.face_keypoints = <<>>

\* C21: interpolate_poses, smooth_poses, the graph builder and the score
\* engine return normally for every Sequence (the empty one, frames with
\* empty or short keypoint lists): no call ends in an exception, and a
\* frame lacking all keypoints gets zero segments.
C21_StagesNeverRaise ==
    /\ pc # "raised"
    /\ result = <<>>
    /\ Drawn =>
          \A k \in 1..Len(pose_frames) :
              LacksAllKeypoints(pose_frames[k]) =>
                  /\ stick_figure_data.frames[k].body_connections = <<>>
                  /\ stick_figure_data.frames[k].hand_connections_left = <<>>
                  /\ stick_figure_data.frames[k].hand_connections_right = <<>>

\* The builder has drawn a frame without keypoints and a frame whose lists
\* are shorter than the tables expect.
C21_Witness ==
    /\ Drawn
    /\ Len(pose_frames) = 2
    /\ LacksAllKeypoints(pose_frames[1])
    /\ stick_figure_data.frames[1].body_connections = <<>>
    /\ Len(pose_frames[2].body_keypoints) = 16
    /\ Len(pose_frames[2].hand_keypoints_left) = 5
    /\ Len(stick_figure_data.frames[2].hand_connections_left) = 4

(***************************************************************************)
(* C26: interpolate_poses and smooth_poses leave their input alone.        *)
(***************************************************************************)
\* The step is a call of interpolate_poses or of smooth_poses.
CallsInterpolateOrSmooth ==
    /\ pc = "build"
    /\ \/ pc' \in {"interpolate_poses", "smooth_poses"}
       \/ pc' = "raised" /\ result'.message.text \in
                                {"interpolate_poses", "smooth_poses"}

\* Frame k of the input is, after the step, what it was before.
SameFrame(k) ==
    /\ pose_frames'[k].body_keypoints = pose_frames[k].body_keypoints
    /\ pose_frames'[k].hand_keypoints_left =
           pose_frames[k].hand_keypoints_left
    /\ pose_frames'[k].hand_keypoints_right =
           pose_frames[k].hand_keypoints_right
    /\ pose_frames'[k].face_keypoints = pose_frames[k].face_keypoints
    /\ pose_frames'[k].timestamp = pose_frames[k].timestamp
    /\ pose_frames'[k].frame_idx = pose_frames[k].frame_idx

\* C26: interpolate_poses and smooth_poses never mutate their input: after
\* either call the input Sequence has the same length and order, and every
\* input frame has the same keypoint lists, timestamp and frame index.
C26_InputNotMutated ==
    [][CallsInterpolateOrSmooth =>
          /\ Len(pose_frames') = Len(pose_frames)
          /\ \A k \in 1..Len(pose_frames) : SameFrame(k)]_vars

\* Three frames interpolated with factor 2: five frames come out, the
\* inserted ones are new, and the three input frames are still the input.
C26_Witness ==
    /\ Interpolated
    /\ Factor = 2
    /\ Len(pose_frames) = 3
    /\ Len(interpolated_poses) = 5
    /\ \A k \in 1..3 : interpolated_poses[2 * k - 1] = pose_frames[k]
    /\ \A k \in 1..3 : pose_frames[k].frame_idx = k - 1
    /\ \E k \in {2, 4} : interpolated_poses[k] \notin
                              {pose_frames[j] : j \in 1..3}

(***************************************************************************)
(* Properties of analyze_video (checked under Spec).                       *)
(***************************************************************************)
\* The frames read whose body keypoint list is not empty.
DetectedFrames ==
    Cardinality({k \in 1..Len(pose_frames) :
                    pose_frames[k].body_keypoints # <<>>})

\* C2: once every image has been processed, if fewer frames have a
\* non-empty body keypoint list than settings.analysis_min_frames, the call
\* raises the insufficient-detection error, which carries the detected
\* count, the number of image files and the minimum; nothing is returned.
C2_InsufficientDetection ==
    (/\ image_files # <<>>
     /\ pc \notin {"start", "detect"}
     /\ DetectedFrames < settings.analysis_min_frames) =>
        /\ pc = "raised"
        /\ result = PoseDetectionError(
                        TooFewFrames(DetectedFrames, Len(image_files),
                                     settings.analysis_min_frames))

\* Two images, one unreadable, one with a person, against the default 30.
C2_Witness ==
    /\ pc = "raised"
    /\ Len(image_files) = 2
    /\ Len(pose_frames) = 1
    /\ DetectedFrames = 1
    /\ settings.analysis_min_frames = 30
    /\ result.message = TooFewFrames(1, 2, 30)

\* The insufficient-detection failure with its three numbers.
InsufficientDetection ==
    PoseDetectionError(TooFewFrames(DetectedFrames, Len(image_files),
                                    settings.analysis_min_frames))

\* C22 (as claimed): whenever analyze_video raises, what it raises is the
\* insufficient-detection failure carrying the observed count, the total
\* count and the configured minimum; this includes the empty collection
\* of images.
C22_OnlyInsufficientDetection ==
    pc = "raised" => result = InsufficientDetection

\* C22 (amended): analyze_video raises in three cases only.  A missing
\* frames directory and an empty collection of images are reported by
\* failures of their own, which carry no counts; otherwise it raises
\* exactly when fewer frames were detected than the configured minimum, and
\* that failure carries the observed count, the total count and the
\* minimum.  Unreadable images and images without a person do not raise.
C22_SurfacedFailures ==
    /\ pc = "raised" =>
          \/ /\ image_files = <<>>
             /\ result \in
                   {PoseDetectionError([text |-> "Frames directory not found"]),
                    PoseDetectionError(
                        [text |-> "No image files found in frames directory"])}
          \/ /\ image_files # <<>>
             /\ idx = Len(image_files)
             /\ DetectedFrames < settings.analysis_min_frames
             /\ result = InsufficientDetection
    /\ (image_files # <<>> /\ pc \notin {"start", "detect"}
           /\ DetectedFrames >= settings.analysis_min_frames) =>
          pc # "raised"

\* The directory is there but holds no image: the failure raised is not
\* the insufficient-detection one.
C22_Witness ==
    /\ pc = "raised"
    /\ image_files = <<>>
    /\ result.message.text = "No image files found in frames directory"
    /\ result # InsufficientDetection


(***************************************************************************)
(* C23: the order of the stages of analyze_video.                          *)
(***************************************************************************)
\* What one step of the run may write, and what it must have read.
StageStep ==
    /\ pose_frames' # pose_frames =>
           /\ pc = "detect"
           /\ idx < Len(image_files)
           /\ interpolated_poses = <<>>
    /\ pc # "interpolate" /\ pc' = "interpolate" =>
           /\ pc = "detect"
           /\ idx = Len(image_files)
           /\ detected_frames_count >= settings.analysis_min_frames
    /\ interpolated_poses' # interpolated_poses =>
           /\ pc = "interpolate"
           /\ interpolated_poses' =
                  interpolate_poses(pose_frames, detector.interpolation_factor)
           /\ smoothed_poses = <<>>
    /\ smoothed_poses' # smoothed_poses =>
           /\ pc = "smooth"
           /\ smoothed_poses' =
                  smooth_poses(interpolated_poses, detector.smoothing_window)
           /\ stick_figure_data = <<>> /\ overall_scores = <<>>
    /\ stick_figure_data' # stick_figure_data =>
           /\ pc = "stick_figure"
           /\ stick_figure_data' = _generate_stick_figure_data(smoothed_poses)
           /\ overall_scores = <<>>
    /\ overall_scores' # overall_scores =>
           /\ pc = "scores"
           /\ overall_scores' = _calculate_enhanced_scores(smoothed_poses)
    /\ pc' = "returned" =>
           /\ pc \in {"assemble", "returned"}
           /\ stick_figure_data' = _generate_stick_figure_data(smoothed_poses')
           /\ overall_scores' = _calculate_enhanced_scores(smoothed_poses')
           /\ smoothed_poses' =
                  smooth_poses(interpolated_poses', detector.smoothing_window)
           /\ interpolated_poses' =
                  interpolate_poses(pose_frames', detector.interpolation_factor)
           /\ idx' = Len(image_files)

\* After a failed gate no later stage has produced anything.
NothingStartedAfterFailedGate ==
    pc = "raised" /\ result.exception = "PoseDetectionError" =>
        /\ interpolated_poses = <<>>
        /\ smoothed_poses = <<>>
        /\ stick_figure_data = <<>>
        /\ overall_scores = <<>>

\* C23: in a successful run the stages happen in the order detection of all
\* images, gate, interpolation, smoothing, graph building, scoring, the last
\* two reading the smoothed sequence; when the gate fails, none of
\* interpolation, smoothing, graph building or scoring has been started.
C23_StageOrder == []NothingStartedAfterFailedGate /\ [][StageStep]_vars

\* A successful run over two frames, where the scores of the smoothed
\* sequence differ from those of the frames as detected.
C23_Witness ==
    /\ pc = "returned"
    /\ Len(pose_frames) = 2
    /\ Len(smoothed_poses) = 11
    /\ result.overall_scores = _calculate_enhanced_scores(smoothed_poses)
    /\ result.overall_scores # _calculate_enhanced_scores(pose_frames)
    /\ result.stick_figure_data = _generate_stick_figure_data(smoothed_poses)

(***************************************************************************)
(* C24: the factor and the window analyze_video runs the stages with.      *)
(***************************************************************************)
AfterInterpolation ==
    pc \in {"smooth", "stick_figure", "scores", "assemble", "returned"}

AfterSmoothing == pc \in {"stick_figure", "scores", "assemble", "returned"}

\* C24: interpolate_poses and smooth_poses run, in analyze_video, with the
\* configured upscale factor and the configured window: the values used
\* equal settings.openpose_interpolation_factor and
\* settings.openpose_smoothing_window.
C24_ConfiguredFactorAndWindow ==
    /\ pc \in {"interpolate", "smooth"} =>
          /\ detector.interpolation_factor =
                 settings.openpose_interpolation_factor
          /\ detector.smoothing_window = settings.openpose_smoothing_window
    /\ AfterInterpolation =>
          interpolated_poses =
              interpolate_poses(pose_frames,
                                settings.openpose_interpolation_factor)
    /\ AfterSmoothing =>
          smoothed_poses =
              smooth_poses(interpolated_poses,
                           settings.openpose_smoothing_window)

(***************************************************************************)
(* C25: the detection figures of the payload.                              *)
(***************************************************************************)
\* C25: in every returned payload detected_frames_count is the number of
\* processed frames with a non-empty body keypoint list, detection_rate is
\* that count divided by the total number of frames, so that the rate lies
\* in [0, 1] and the count is at least the configured minimum.
C25_DetectionFigures ==
    pc = "returned" =>
        /\ result.detected_frames_count = DetectedFrames
        /\ result.detection_rate * result.frame_count <=
               result.detected_frames_count * Unit
        /\ result.detected_frames_count * Unit <
               (result.detection_rate + 1) * result.frame_count
        /\ result.frame_count = Len(image_files)
        /\ 0 <= result.detection_rate /\ result.detection_rate <= Unit
        /\ result.detected_frames_count >= settings.analysis_min_frames

\* Two readable images, a person in one of them only: the rate is 1/2.
C25_Witness ==
    /\ pc = "returned"
    /\ image_files = <<TRUE, TRUE>>
    /\ Len(pose_frames) = 2
    /\ DetectedFrames = 1
    /\ result.detected_frames_count = 1
    /\ result.detection_rate = Fix(1, 2)

(***************************************************************************)
(* C27: the order of the frames at every stage of analyze_video.           *)
(***************************************************************************)
NonDecreasing(poses) ==
    \A k \in 1..(Len(poses) - 1) :
        /\ poses[k].frame_idx <= poses[k + 1].frame_idx
        /\ poses[k].timestamp <= poses[k + 1].timestamp

IncreasingIndex(poses) ==
    \A k \in 1..(Len(poses) - 1) : poses[k].frame_idx < poses[k + 1].frame_idx

C28_FrameCounts ==
    pc = "returned" /\ result.frame_count >= 2 =>
        /\ result.interpolated_frame_count =
               (result.frame_count - 1) * detector.interpolation_factor + 1
        /\ result.interpolated_frame_count = Len(result.pose_frames)
        /\ result.interpolated_frame_count =
               Len(result.stick_figure_data.frames)

(***************************************************************************)
(* C29: what main does after a successful analysis (MainSpec).             *)
(***************************************************************************)
\* Frame extraction, pose analysis and viewer generation have all
\* succeeded and main has ended.
EndedAfterSuccess ==
    /\ pc = "returned"
    /\ {"Frames extracted successfully", "Analysis complete!",
        "3D viewer generated"} \subseteq console

\* C29: when frame extraction, pose analysis and viewer generation all
\* succeed, main does not end with the "Analysis failed" exit: with --serve
\* it starts the web server for the generated viewer directory, without
\* --serve it reaches the publish prompt or reports where the analysis was
\* saved.
C29_ServesAfterSuccess ==
    EndedAfterSuccess =>
        /\ "Analysis failed. Please try with a different video."
               \notin console
        /\ locals.serve =>
               /\ "Starting web server to host visualization..." \in console
               /\ locals.server = <<"FlowStateServer", ViewerDir>>
        /\ ~locals.serve =>
               \/ "Would you like to publish to GitHub Pages?" \in console
               \/ "Analysis saved to" \in console

(***************************************************************************)
(* C30: the user's video and cleanup (DownloaderSpec).                     *)
(***************************************************************************)
\* C30: no call of process_local_video or cleanup removes a local video of
\* the user: after any sequence of calls the original file still exists,
\* also when a file of its name already lay in the temp directory.
C30_OriginalSurvives ==
    [][\A video_path \in UserPaths :
          video_path \in disk.files => video_path \in disk'.files]_vars

====
